---- MODULE Spec2Model ----
(***************************************************************************)
(* The write path of tantivy: IndexWriter (src/indexer/index_writer.rs),   *)
(* its indexing workers, the DeleteQueue (src/indexer/delete_queue.rs) and *)
(* the directory lock of MmapDirectory (src/directory/mmap_directory.rs).  *)
(*                                                                         *)
(* One IndexWriter value lives in the variables alive .. pc.  Every        *)
(* open_index_writer call (a first open, a re-open after a drop, the       *)
(* rebuild inside rollback) creates a new writer instance, numbered by     *)
(* epoch; the channel, delete queue, segment updater and worker threads of *)
(* instance e are chan[e], dq[e], su[e], workers[e], and keep running      *)
(* after the IndexWriter value was replaced or dropped (detached threads). *)
(*                                                                         *)
(* Ten components are also followed on their own, each in one variable     *)
(* and under its own specification: the bounded document channel under     *)
(* load (pipe, SpecPipe), a DeleteQueue with two cursors (tq, SpecQueue),   *)
(* an MmapDirectory with its MmapCache (md, SpecCache), the heap size      *)
(* checks of open_index_writer (heap, SpecHeap), a RemoveLongFilter stream  *)
(* (rl, SpecFilter), a DeleteQueue shared by threads, followed lock by     *)
(* lock (cq, SpecCells and SpecCellsFair), the merges of committed         *)
(* segments (mg, SpecMerge), initial_table_size (tb, SpecTable),           *)
(* advance_deletes on one segment entry (ad, SpecAdvance), and the watcher *)
(* and dispatcher thread of an MmapDirectory (wd, SpecWatchFair).  The     *)
(* calls that wait for the workers are followed under fair scheduling in   *)
(* SpecJoinFair.                                                           *)
(***************************************************************************)
EXTENDS Integers, Sequences, FiniteSets, TLC

\* ---------------------------------------------------------------- bounds
\* stamps are drawn while the stamper is below MaxStamp
MaxStamp == 4
\* num_threads ranges over 1..MaxThreads
MaxThreads == 2
\* writer instances 0..MaxEpoch (each rollback or re-open creates one)
MaxEpoch == 1
\* the documents a writer is given where only the life of its lock is followed
MaxLockStamp == 1
\* the delete operations pushed where a DeleteQueue is followed on its own
MaxPushes == 3
\* the read sources of one path held at a time, and the open_read calls,
\* where an MmapDirectory is followed on its own
MaxHeld == 2
MaxOpens == 6
\* heap sizes are taken up to HeapNear bytes from each multiple of Limb and
\* from each bound
HeapNear == 4
\* memory budgets are taken up to TableNear bytes from three times each
\* table size and from each bound
TableNear == 3
\* where the calls that wait for the workers are followed under fairness,
\* the stamper stays below MaxJoinStamp
MaxJoinStamp == 3
\* where the watcher of an MmapDirectory is followed on its own: up to
\* MaxHandles handles at a time and MaxEvents events from the file system
MaxHandles == 2
MaxEvents == 2
\* where advance_deletes is followed on its own: a segment of up to
\* MaxAdDocs documents, MaxAdDeletes delete operations, MaxAdCalls calls
MaxAdDocs == 2
MaxAdDeletes == 2
MaxAdCalls == 2
\* a token stream holds up to MaxTokens tokens
MaxTokens == 3
\* RemoveLongFilter::limit(n) for n in 0..MaxLimit
MaxLimit == 4
\* the threads sharing a DeleteQueue push up to MaxCellPushes operations
MaxCellPushes == 2
\* the documents 1..MaxMergeDocs are committed, deleted and merged
MaxMergeDocs == 3
\* segment ids 1..MaxSegmentIds are given to commits and merges
MaxSegmentIds == 5
\* the threads 1..MaxCellThreads share a DeleteQueue
MaxCellThreads == 2
\* program constants
PIPELINE_MAX_SIZE_IN_DOCS == 10000

Terms == {"a", "b"}
Epochs == 0..MaxEpoch
Slots == 0..1
Threads == 1..MaxThreads
Cursors == 1..2
CellThreads == 1..MaxCellThreads
MergeDocs == 1..MaxMergeDocs
SegmentIds == 1..MaxSegmentIds
CellBlocks == 1..(MaxCellPushes + 1)
Paths == {"f", "g"}
\* the texts of tokens, as UTF-8 bytes ("", "a", "ab", "\u00e9", "abc", "ab\u00e9")
TokenTexts == {<<>>, <<97>>, <<97, 98>>, <<195, 169>>, <<97, 98, 99>>,
               <<97, 98, 195, 169>>}
\* the contents written to files
Contents == {<<>>, <<1>>, <<2, 3>>}

\* usize values beyond 2^31 are written [hi, lo] for hi * Limb + lo, with
\* 0 <= lo < Limb
Limb == 1000000
Lt(a, b) == a.hi < b.hi \/ (a.hi = b.hi /\ a.lo < b.lo)
Sub(a, b) ==
    IF a.lo >= b.lo
    THEN [hi |-> a.hi - b.hi, lo |-> a.lo - b.lo]
    ELSE [hi |-> a.hi - b.hi - 1, lo |-> a.lo + Limb - b.lo]

MARGIN_IN_BYTES == [hi |-> 1, lo |-> 0]
\* ((MARGIN_IN_BYTES as u32) * 3u32) as usize
HEAP_SIZE_MIN == [hi |-> 3 * MARGIN_IN_BYTES.hi, lo |-> 3 * MARGIN_IN_BYTES.lo]
\* u32::max_value() as usize - MARGIN_IN_BYTES, u32::max_value() = 4,294,967,295
HEAP_SIZE_MAX == Sub([hi |-> 4294, lo |-> 967295], MARGIN_IN_BYTES)

\* Option<u64>::None for SegmentMeta.delete_opstamp
NoStamp == -1

\* ------------------------------------------------------------ operations
\* UserOperation::Add(doc) / UserOperation::Delete(term); a document is
\* represented by the single term it contains.
Add(t) == [kind |-> "Add", term |-> t]
Delete(t) == [kind |-> "Delete", term |-> t]

\* the batches handed to run() in this model
RunInputs ==
    { <<>>,
      <<Delete("a")>>,
      <<Add("a"), Add("b")>>,
      <<Add("a"), Delete("a")>> }

\* the terms handed to delete_term() in this model
DeleteTerms == {"a"}

\* AddOperation { opstamp, document }; e (the writer instance that stamped
\* it) only tells apart documents that received the same stamp in two
\* instances.
AddOperation(e, opstamp, t) == [e |-> e, opstamp |-> opstamp, term |-> t]
DeleteOperation(opstamp, t) == [opstamp |-> opstamp, term |-> t]

\* ---------------------------------------------------------------- Stamper
\* stamp(): returns the counter and increments it
stamp(s) == [ret |-> s, next |-> s + 1]
\* stamps(n): the half-open range [start, end) of length n
stamps(s, n) == [start |-> s, end |-> s + n, next |-> s + n]

\* ------------------------------------------------------------ DeleteQueue
\* A queue is [writer, blocks, last_block]; blocks[b] = [operations, next]
\* with next = 0 for InnerNextBlock::Writer and next = j for Closed(block j).
\* A cursor is [block, pos] (pos is 0-based as in the source).
DeleteQueue_new ==
    [writer |-> <<>>,
     blocks |-> << [operations |-> <<>>, next |-> 0] >>,
     last_block |-> 1]

cursor(q) ==
    [block |-> q.last_block, pos |-> Len(q.blocks[q.last_block].operations)]

push(q, op) == [q EXCEPT !.writer = Append(@, op)]

\* a flush that leaves the operations in the writer buffer
flush_keeping_writer(q) ==
    IF q.writer = <<>>
    THEN [q |-> q, blk |-> 0]
    ELSE LET nb == Len(q.blocks) + 1
         IN [q |-> [writer |-> q.writer,
                    blocks |-> Append(q.blocks, [operations |-> q.writer, next |-> 0]),
                    last_block |-> nb],
             blk |-> nb]

\* returns the queue after the flush and the new block (0 for None)
flush(q) ==
    IF q.writer = <<>>
    THEN [q |-> q, blk |-> 0]
    ELSE LET nb == Len(q.blocks) + 1
         IN [q |-> [writer |-> <<>>,
                    blocks |-> Append(q.blocks, [operations |-> q.writer, next |-> 0]),
                    last_block |-> nb],
             blk |-> nb]

next_block(q, b) ==
    IF q.blocks[b].next # 0
    THEN [q |-> q, blk |-> q.blocks[b].next]
    ELSE LET closed(f) ==
                 IF f.blk = 0
                 THEN [q |-> q, blk |-> 0]
                 ELSE [q |-> [f.q EXCEPT !.blocks[b].next = f.blk], blk |-> f.blk]
         IN closed(flush(q))

load_block_if_required(q, c) ==
    IF c.pos >= Len(q.blocks[c.block].operations)
    THEN LET loaded(n) ==
                 IF n.blk # 0
                 THEN [q |-> n.q, c |-> [block |-> n.blk, pos |-> 0], ok |-> TRUE]
                 ELSE [q |-> q, c |-> c, ok |-> FALSE]
         IN loaded(next_block(q, c.block))
    ELSE [q |-> q, c |-> c, ok |-> TRUE]

NoOp == [opstamp |-> NoStamp, term |-> "none"]

\* a get that steps over the operation it returns
get_advancing(q, c) ==
    LET at(l) ==
            [q |-> l.q, c |-> IF l.ok THEN [l.c EXCEPT !.pos = @ + 1] ELSE l.c,
             op |-> IF l.ok THEN l.q.blocks[l.c.block].operations[l.c.pos + 1] ELSE NoOp]
    IN at(load_block_if_required(q, c))

\* get(): [q, c, op]; op = NoOp for None
get(q, c) ==
    LET at(l) ==
            [q |-> l.q, c |-> l.c,
             op |-> IF l.ok THEN l.q.blocks[l.c.block].operations[l.c.pos + 1] ELSE NoOp]
    IN at(load_block_if_required(q, c))

advance(q, c) ==
    LET at(l) ==
            IF l.ok
            THEN [q |-> l.q, c |-> [l.c EXCEPT !.pos = @ + 1], ret |-> TRUE]
            ELSE [q |-> l.q, c |-> l.c, ret |-> FALSE]
    IN at(load_block_if_required(q, c))

\* a skip_to that also skips the operation stamped target_opstamp
RECURSIVE skip_to_past(_, _, _)
skip_to_past(q, c, target_opstamp) ==
    LET next(a) == skip_to_past(a.q, a.c, target_opstamp)
        at(g) ==
            IF g.op # NoOp /\ g.op.opstamp <= target_opstamp
            THEN next(advance(g.q, g.c))
            ELSE [q |-> g.q, c |-> g.c]
    IN at(get(q, c))

RECURSIVE skip_to(_, _, _)
skip_to(q, c, target_opstamp) ==
    LET next(a) == skip_to(a.q, a.c, target_opstamp)
        at(g) ==
            IF g.op # NoOp /\ g.op.opstamp < target_opstamp
            THEN next(advance(g.q, g.c))
            ELSE [q |-> g.q, c |-> g.c]
    IN at(get(q, c))

\* ------------------------------------------- segments and delete bitsets
\* A SegmentMeta is [docs, delete_opstamp, deleted]: docs stands for the
\* segment id and its immutable files (the documents in doc-id order, doc id
\* i is docs[i + 1]); deleted is the content of the delete-bitset file the
\* meta names (empty when delete_opstamp is None).  A SegmentEntry is
\* [meta, delete_bitset, delete_cursor]; Option<BitSet>::None and an empty
\* bitset are both {} (the code treats them alike).
SegmentMeta_new(docs) == [docs |-> docs, delete_opstamp |-> NoStamp, deleted |-> {}]

SegmentEntry_new(meta, delete_cursor, delete_bitset) ==
    [meta |-> meta, delete_bitset |-> delete_bitset, delete_cursor |-> delete_cursor]

Range(s) == {s[i] : i \in DOMAIN s}

\* DocToOpstampMapping::None / DocToOpstampMapping::from(doc_opstamps)
DocToOpstampMapping_None == [some |-> FALSE, opstamps |-> <<>>]
DocToOpstampMapping_from(doc_opstamps) == [some |-> TRUE, opstamps |-> doc_opstamps]

\* stands for u32::max_value(): larger than every doc id
DOC_LIMIT_MAX == 2147483647

\* the first doc id whose opstamp is >= the delete's opstamp: documents from
\* there on are immune; without a mapping every document may be affected
compute_doc_limit(m, delete_opstamp) ==
    IF ~m.some
    THEN DOC_LIMIT_MAX
    ELSE LET later == {i \in DOMAIN m.opstamps : m.opstamps[i] >= delete_opstamp}
         IN IF later = {}
            THEN Len(m.opstamps)
            ELSE (CHOOSE i \in later : \A j \in later : i <= j) - 1

\* inverted_index.read_postings(term): the doc ids containing the term
read_postings(docs, term) == {i - 1 : i \in {j \in DOMAIN docs : docs[j].term = term}}

\* a faulty variant: the document at the limit is hit too (doc <= limit_doc)
RECURSIVE compute_deleted_bitset_le(_, _, _, _, _, _)
compute_deleted_bitset_le(delete_bitset, docs, q, c, doc_opstamps, target_opstamp) ==
    LET next(hit, a) ==
            compute_deleted_bitset_le(delete_bitset \cup hit, docs, a.q, a.c,
                                      doc_opstamps, target_opstamp)
        at(g) ==
            IF g.op = NoOp \/ g.op.opstamp > target_opstamp
            THEN [bitset |-> delete_bitset, q |-> g.q, c |-> g.c]
            ELSE LET limit_doc == compute_doc_limit(doc_opstamps, g.op.opstamp)
                 IN next({d \in read_postings(docs, g.op.term) : d <= limit_doc},
                         advance(g.q, g.c))
    IN at(get(q, c))

\* [bitset, q, c]: the bitset after the loop, the queue and the cursor as the
\* loop leaves them
RECURSIVE compute_deleted_bitset(_, _, _, _, _, _)
compute_deleted_bitset(delete_bitset, docs, q, c, doc_opstamps, target_opstamp) ==
    LET next(hit, a) ==
            compute_deleted_bitset(delete_bitset \cup hit, docs, a.q, a.c,
                                   doc_opstamps, target_opstamp)
        at(g) ==
            IF g.op = NoOp \/ g.op.opstamp > target_opstamp
            THEN [bitset |-> delete_bitset, q |-> g.q, c |-> g.c]
            ELSE LET limit_doc == compute_doc_limit(doc_opstamps, g.op.opstamp)
                 IN next({d \in read_postings(docs, g.op.term) : d < limit_doc},
                         advance(g.q, g.c))
    IN at(get(q, c))

\* a faulty variant: the bitset starts empty instead of as a copy of the
\* entry's bitset
advance_deletes_fresh(segment_entry, q, target_opstamp) ==
    IF segment_entry.meta.delete_opstamp = target_opstamp
    THEN [entry |-> segment_entry, q |-> q]
    ELSE LET docs == segment_entry.meta.docs
             max_doc == Len(docs)
             with(r) ==
                 LET delete_bitset ==
                         r.bitset \cup {doc \in 0..(max_doc - 1) :
                                           doc \in segment_entry.meta.deleted}
                     num_deleted_docs == Cardinality(delete_bitset)
                     meta == IF num_deleted_docs > 0
                             THEN [segment_entry.meta EXCEPT
                                       !.delete_opstamp = target_opstamp,
                                       !.deleted = delete_bitset]
                             ELSE segment_entry.meta
                 IN [entry |-> [segment_entry EXCEPT !.meta = meta,
                                                     !.delete_cursor = r.c],
                     q |-> r.q]
         IN with(compute_deleted_bitset({}, docs, q, segment_entry.delete_cursor,
                                        DocToOpstampMapping_None, target_opstamp))

\* [entry, q]
advance_deletes(segment_entry, q, target_opstamp) ==
    IF segment_entry.meta.delete_opstamp = target_opstamp
    THEN [entry |-> segment_entry, q |-> q]
    ELSE LET docs == segment_entry.meta.docs
             max_doc == Len(docs)
             with(r) ==
                 LET delete_bitset ==
                         r.bitset \cup {doc \in 0..(max_doc - 1) :
                                           doc \in segment_entry.meta.deleted}
                     num_deleted_docs == Cardinality(delete_bitset)
                     meta == IF num_deleted_docs > 0
                             THEN [segment_entry.meta EXCEPT
                                       !.delete_opstamp = target_opstamp,
                                       !.deleted = delete_bitset]
                             ELSE segment_entry.meta
                 IN [entry |-> [segment_entry EXCEPT !.meta = meta,
                                                     !.delete_cursor = r.c],
                     q |-> r.q]
         IN with(compute_deleted_bitset(segment_entry.delete_bitset, docs, q,
                                        segment_entry.delete_cursor,
                                        DocToOpstampMapping_None, target_opstamp))

\* ---------------------------------------------------------- SegmentUpdater
\* [killed, generation, entries]
SegmentUpdater_create(index_metas, delete_cursor) ==
    [killed |-> FALSE,
     generation |-> 0,
     entries |-> {SegmentEntry_new(m, delete_cursor, {}) : m \in index_metas.segments}]

\* add_segment(generation, entry): [su, accepted]
add_segment(u, gen, segment_entry) ==
    IF u.killed \/ gen # u.generation
    THEN [su |-> u, accepted |-> FALSE]
    ELSE [su |-> [u EXCEPT !.entries = @ \cup {segment_entry}], accepted |-> TRUE]

\* the commit task advances the deletes of every entry, one after the other,
\* up to the commit opstamp: [entries, q]
purge_deletes(entries, q, target_opstamp) ==
    LET n == Cardinality(entries)
        order == CHOOSE f \in [1..n -> entries] : \A x \in entries : \E k \in 1..n : f[k] = x
        add(done, r) == [entries |-> done \cup {r.entry}, q |-> r.q]
        then(p, en) == add(p.entries, advance_deletes(en, p.q, target_opstamp))
        step[k \in 0..n] ==
            IF k = 0 THEN [entries |-> {}, q |-> q] ELSE then(step[k - 1], order[k])
    IN step[n]

\* ------------------------------------------------------------------ state
VARIABLES
    \* the index directory
    metas,              \* meta.json: [opstamp, segments]
    flock,              \* holders of the advisory lock on the lock file
    other,              \* a second IndexWriter handle on the same directory exists
    \* the IndexWriter value
    alive,              \* the IndexWriter exists (opened and not dropped)
    directory_lock,     \* _directory_lock is Some
    stamper,
    committed_opstamp,
    generation,
    num_threads,
    epoch,              \* the writer instance the IndexWriter value is
    slot,               \* which channel of the instance document_sender feeds
    pc,                 \* where the caller of the IndexWriter is
    join_i,             \* prepare_commit: the next worker handle to join
    commit_stamp,       \* PreparedCommit.opstamp
    drain,              \* rollback: [e, s], the channel its receiver clone drains
    \* shared with the threads
    chan,               \* chan[e][s] = [q, open]: batches; open = a sender exists
    dq,                 \* dq[e]: the DeleteQueue
    su,                 \* su[e]: the SegmentUpdater
    workers,            \* workers[e][i] = [pc, slot, generation, delete_cursor, docs]
    \* history (not read by the program)
    added,              \* documents added since the last commit, rollback or open
    batches,            \* the non-empty add batches run has sent
    dels,               \* deletes issued since the last commit, rollback or open
    cdels,              \* deletes that preceded a successful commit
    ended,              \* ended[e]: the opstamp of meta.json when instance e was
                        \* rolled back, NoStamp while it was not
    late_install,       \* a worker of a rolled-back instance installed a segment
    initial,            \* the opstamp the writer loaded when it was opened
    returned_max,       \* the last stamp add_document, delete_term or run returned
                        \* on this IndexWriter value, NoStamp before the first
    stamps_log,         \* the stamps handed out since the writer was opened
    last,               \* the last call on the IndexWriter and its result
    other_last,         \* the result of the last attempt to open a second writer
    \* the components followed on their own, further below
    pipe,               \* the bounded document channel under load
    tq,                 \* a DeleteQueue and two cursors on it
    md,                 \* an MmapDirectory: its files and its MmapCache
    heap,               \* the last heap size given to open_index_writer, and the result
    rl,                 \* a RemoveLongFilterStream over a token stream
    cq,                 \* a DeleteQueue shared by threads, lock by lock
    mg,                 \* committed segments and the merges running on them
    tb,                 \* the last budget given to initial_table_size, and the result
    ad,                 \* one segment entry, the delete queue, and advance_deletes called on them
    wd                  \* an MmapDirectory, its handles, its watcher and its dispatcher thread

vars == <<metas, flock, other, alive, directory_lock, stamper, committed_opstamp,
          generation, num_threads, epoch, slot, pc, join_i, commit_stamp, drain,
          chan, dq, su, workers, added, batches, dels, cdels, ended,
          late_install, initial, returned_max, stamps_log, last, other_last, pipe, tq, md,
          heap, rl, cq, mg, tb, ad, wd>>

\* the components no step of the write path touches
component_vars == <<pipe, tq, md, heap, rl, cq, mg, tb, ad, wd>>
\* what no step of the write path changes
fixed_vars == <<num_threads, component_vars>>
\* what no step of a component followed on its own changes
write_path_vars == <<metas, flock, other, alive, directory_lock, stamper,
                     committed_opstamp, generation, num_threads, epoch, slot, pc,
                     join_i, commit_stamp, drain, chan, dq, su, workers, added,
                     batches, dels, cdels, ended, late_install, initial, returned_max,
                     stamps_log,
                     last, other_last>>

dir_vars == <<metas, flock, other, other_last>>
writer_vars == <<alive, directory_lock, stamper, committed_opstamp, generation,
                 fixed_vars, epoch, slot>>
call_vars == <<pc, join_i, commit_stamp, drain>>
thread_vars == <<chan, dq, su, workers>>
hist_vars == <<added, batches, dels, cdels, ended, late_install, initial, returned_max,
               stamps_log>>

NoPre == [metas |-> [opstamp |-> NoStamp, segments |-> {}], committed_opstamp |-> NoStamp]

\* the record of a call: what it was given, the stamper before it, what it
\* returned, and what it sent
Call(op, err, start, ret, arg, batch, pushed, docs, pre) ==
    [op |-> op, ok |-> (err = "ok"), err |-> err, start |-> start, ret |-> ret, arg |-> arg,
     batch |-> batch, pushed |-> pushed, docs |-> docs, pre |-> pre,
     tick |-> 1 - last.tick]

NoWorker == [pc |-> "none", slot |-> 0, generation |-> 0,
             delete_cursor |-> [block |-> 1, pos |-> 0], docs |-> <<>>]

\* the state add_indexing_worker captures for the thread it spawns
add_indexing_worker(s, gen, q) ==
    [pc |-> "peek", slot |-> s, generation |-> gen, delete_cursor |-> cursor(q),
     docs |-> <<>>]

start_workers(n, s, gen, q) ==
    [i \in Threads |-> IF i <= n THEN add_indexing_worker(s, gen, q) ELSE NoWorker]

NoChannel == [q |-> <<>>, open |-> FALSE]
channel_bounded == [q |-> <<>>, open |-> TRUE]

\* what chan[e], su[e], workers[e] hold while no instance e exists
NoChannels == [s \in Slots |-> NoChannel]
NoEntry == SegmentEntry_new(SegmentMeta_new(<<>>), cursor(DeleteQueue_new), {})
NoUpdater == SegmentUpdater_create([opstamp |-> 0, segments |-> {}], cursor(DeleteQueue_new))
NoWorkers == [i \in Threads |-> NoWorker]

\* open_index_writer on a directory lock already acquired, for the new
\* instance e; ch is chan as the caller leaves it.
open_index_writer(e, ch) ==
    /\ chan' = [ch EXCEPT ![e] = [NoChannels EXCEPT ![0] = channel_bounded]]
    /\ dq' = [dq EXCEPT ![e] = DeleteQueue_new]
    /\ stamper' = metas.opstamp
    /\ committed_opstamp' = metas.opstamp
    /\ su' = [su EXCEPT ![e] = SegmentUpdater_create(metas, cursor(DeleteQueue_new))]
    /\ directory_lock' = TRUE
    /\ generation' = 0
    /\ epoch' = e
    /\ slot' = 0
    /\ workers' = [workers EXCEPT ![e] = start_workers(num_threads, 0, 0, DeleteQueue_new)]
    /\ initial' = metas.opstamp
    /\ stamps_log' = <<>>

\* std::sync::RwLock: the threads holding it for reading, the thread holding
\* it for writing (0: none)
RwLock_new == [readers |-> {}, writer |-> 0]

\* the record of a call on cursor i: ret is its result (get: an operation was
\* returned), from the position of the cursor before the call, t the target
\* of a skip_to, none whether get() returned None just before the call
CursorCall(op, i, ret, from, t, none) ==
    [op |-> op, i |-> i, ret |-> ret, from |-> from, t |-> t, none |-> none]

\* RemoveLongFilterStream::wrap.  A stream is [token_length_limit, tail,
\* token, ret]: tail is what the wrapped stream has not yet advanced over,
\* token its current token, ret the result of the last advance ("new" before
\* the first); input and out are history: the tokens of the wrapped stream,
\* and the tokens this stream has stopped on.
wrap(token_length_limit, tail) ==
    [token_length_limit |-> token_length_limit, tail |-> tail, token |-> <<>>,
     ret |-> "new", input |-> tail, out |-> <<>>]

Init ==
    /\ metas = [opstamp |-> 0, segments |-> {}]
    /\ flock = {"writer"}
    /\ other = FALSE
    /\ alive = TRUE
    /\ directory_lock = TRUE
    /\ stamper = 0
    /\ committed_opstamp = 0
    /\ generation = 0
    /\ num_threads \in 1..MaxThreads
    /\ epoch = 0
    /\ slot = 0
    /\ pc = "idle"
    /\ join_i = 0
    /\ commit_stamp = NoStamp
    /\ drain = [e |-> 0, s |-> 0]
    /\ chan = [e \in Epochs |->
                  IF e = 0 THEN [NoChannels EXCEPT ![0] = channel_bounded] ELSE NoChannels]
    /\ dq = [e \in Epochs |-> DeleteQueue_new]
    /\ su = [e \in Epochs |-> NoUpdater]
    /\ workers = [e \in Epochs |->
                    IF e = 0 THEN start_workers(num_threads, 0, 0, DeleteQueue_new)
                    ELSE NoWorkers]
    /\ added = {}
    /\ batches = {}
    /\ dels = {}
    /\ cdels = {}
    /\ ended = [e \in Epochs |-> NoStamp]
    /\ late_install = FALSE
    /\ initial = 0
    /\ returned_max = NoStamp
    /\ stamps_log = <<>>
    /\ other_last = "none"
    /\ pipe = [len |-> 0, sender |-> "idle", removed |-> FALSE]
    /\ tq = [q |-> DeleteQueue_new, n |-> 0,
             c |-> [i \in Cursors |-> cursor(DeleteQueue_new)],
             made |-> [i \in Cursors |-> FALSE],
             at |-> [i \in Cursors |-> 0],
             seen |-> [i \in Cursors |-> <<>>],
             twin |-> "none", from |-> 0,
             start |-> [i \in Cursors |-> 0],
             stalled |-> [i \in Cursors |-> 0],
             last |-> CursorCall("none", 1, FALSE, 0, 0, FALSE)]
    /\ md = [files |-> [p \in Paths |-> "none"],
             cache |-> [p \in Paths |-> FALSE],
             held |-> [p \in Paths |-> 0],
             counters |-> [hit |-> 0, miss |-> 0],
             bytes |-> [p \in Paths |-> <<>>],
             last |-> [op |-> "open", path |-> "f", res |-> "ok", data |-> <<>>, tick |-> 0]]
    /\ heap = [arg |-> HEAP_SIZE_MIN, res |-> "ok"]
    /\ last = [op |-> "open", ok |-> TRUE, err |-> "ok", start |-> 0, ret |-> 0, arg |-> <<>>,
               batch |-> <<>>, pushed |-> <<>>, docs |-> {}, pre |-> NoPre, tick |-> 0]
    /\ rl = wrap(0, <<>>)
    /\ cq = [q |-> DeleteQueue_new, n |-> 0,
             inner |-> RwLock_new,
             cell |-> [b \in CellBlocks |-> RwLock_new],
             pc |-> [t \in CellThreads |-> "idle"],
             call |-> [t \in CellThreads |-> "none"],
             c |-> [t \in CellThreads |-> cursor(DeleteQueue_new)],
             next_block |-> [t \in CellThreads |-> 0],
             order |-> {}, steps |-> {},
             flushed |-> [b \in CellBlocks |-> 0]]
    /\ mg = [docs |-> [id \in SegmentIds |-> {}],
             live |-> {}, merging |-> {}, tasks |-> {},
             next |-> 1, indexed |-> {}, deleted |-> {},
             merges |-> {}, waited |-> FALSE]
    /\ tb = [arg |-> [hi |-> 0, lo |-> 0], res |-> 0]
    /\ ad = [phase |-> "feed", docs |-> <<>>, entry |-> NoEntry, q |-> DeleteQueue_new,
             c |-> cursor(DeleteQueue_new), stamp |-> 0, ndel |-> 0, prev |-> NoEntry,
             target |-> NoStamp, called |-> FALSE, n |-> 0]
    /\ wd = [handles |-> 1, strong |-> 2, tx |-> TRUE, thread |-> "recv", events |-> <<>>,
             sent |-> 0, subs |-> {}, fired |-> {}]

\* ---------------------------------------------------- IndexWriter: the API
Dead(ws) == \A i \in Threads : ws[i].pc \in {"none", "done"}

\* The threads of a replaced or dropped writer share nothing with its
\* successor (each instance has its own channel, delete queue and segment
\* updater), so their remaining steps commute with every call on the
\* successor; the calls are modelled from the point where they have ended.
Quiet == \A e \in Epochs : e # epoch => Dead(workers[e])

Idle == alive /\ pc = "idle" /\ Quiet

send(ch, e, s, batch) == [ch EXCEPT ![e][s].q = Append(@, batch)]

add_document(t) ==
    /\ Idle
    /\ stamper < MaxStamp
    /\ Len(chan[epoch][slot].q) < PIPELINE_MAX_SIZE_IN_DOCS
    /\ LET st == stamp(stamper)
           add_operation == AddOperation(epoch, st.ret, t)
       IN /\ stamper' = st.next
          /\ chan' = send(chan, epoch, slot, <<add_operation>>)
          /\ added' = added \cup {add_operation}
          /\ stamps_log' = Append(stamps_log, st.ret)
          /\ last' = Call("add_document", "ok", stamper, st.ret, <<Add(t)>>,
                          <<add_operation>>, <<>>, {}, NoPre)
    /\ returned_max' = last'.ret
    /\ UNCHANGED <<dir_vars, alive, directory_lock, committed_opstamp, generation,
                   fixed_vars, epoch, slot, call_vars, dq, su, workers, dels, cdels,
                   ended, late_install, initial, batches>>

delete_term(t) ==
    /\ Idle
    /\ stamper < MaxStamp
    /\ LET st == stamp(stamper)
           delete_operation == DeleteOperation(st.ret, t)
       IN /\ stamper' = st.next
          /\ dq' = [dq EXCEPT ![epoch] = push(@, delete_operation)]
          /\ dels' = dels \cup {delete_operation}
          /\ stamps_log' = Append(stamps_log, st.ret)
          /\ last' = Call("delete_term", "ok", stamper, st.ret, <<Delete(t)>>,
                          <<>>, <<delete_operation>>, {}, NoPre)
    /\ returned_max' = last'.ret
    /\ UNCHANGED <<dir_vars, alive, directory_lock, committed_opstamp, generation,
                   fixed_vars, epoch, slot, call_vars, chan, su, workers, added, batches,
                   cdels, ended, late_install, initial>>

\* a faulty variant: the batch stamp is the end of the range, not its last stamp
get_batch_opstamps_end(s, count) ==
    LET r == stamps(s, count + 1)
        last_opstamp == r.end
    IN [batch_opstamp |-> last_opstamp, start |-> r.start, end |-> last_opstamp,
        next |-> r.next]

\* (last_opstamp, stamps): count + 1 stamps are drawn, the last one is for
\* the batch itself
get_batch_opstamps(s, count) ==
    LET r == stamps(s, count + 1)
        last_opstamp == r.end - 1
    IN [batch_opstamp |-> last_opstamp, start |-> r.start, end |-> last_opstamp,
        next |-> r.next]

\* a faulty variant: each add is put in front of the batch
RECURSIVE run_loop_front(_, _, _, _, _, _)
run_loop_front(e, user_operations, i, opstamp, end, acc) ==
    IF i > Len(user_operations) \/ opstamp >= end
    THEN acc
    ELSE LET user_op == user_operations[i]
         IN IF user_op.kind = "Delete"
            THEN run_loop_front(e, user_operations, i + 1, opstamp + 1, end,
                          [acc EXCEPT !.q = push(@, DeleteOperation(opstamp, user_op.term)),
                                      !.stamped = Append(@, opstamp)])
            ELSE run_loop_front(e, user_operations, i + 1, opstamp + 1, end,
                          [acc EXCEPT !.adds = <<AddOperation(e, opstamp, user_op.term)>> \o @,
                                      !.stamped = Append(@, opstamp)])

\* the loop of run over user_operations.zip(stamps), from the i-th operation
\* and the stamp opstamp on; acc = [adds, q, stamped]
RECURSIVE run_loop(_, _, _, _, _, _)
run_loop(e, user_operations, i, opstamp, end, acc) ==
    IF i > Len(user_operations) \/ opstamp >= end
    THEN acc
    ELSE LET user_op == user_operations[i]
         IN IF user_op.kind = "Delete"
            THEN run_loop(e, user_operations, i + 1, opstamp + 1, end,
                          [acc EXCEPT !.q = push(@, DeleteOperation(opstamp, user_op.term)),
                                      !.stamped = Append(@, opstamp)])
            ELSE run_loop(e, user_operations, i + 1, opstamp + 1, end,
                          [acc EXCEPT !.adds = Append(@, AddOperation(e, opstamp, user_op.term)),
                                      !.stamped = Append(@, opstamp)])

\* a faulty variant: the stamper is read, no stamp is drawn
run_empty_peek(user_operations) ==
    /\ last' = Call("run", "ok", stamper, stamper, user_operations,
                    <<>>, <<>>, {}, NoPre)
    /\ UNCHANGED <<stamper, stamps_log, chan, dq, added, batches, dels>>

\* run with no operation: one stamp is drawn and returned
run_empty(user_operations) ==
    LET st == stamp(stamper)
    IN /\ stamper' = st.next
       /\ stamps_log' = Append(stamps_log, st.ret)
       /\ last' = Call("run", "ok", stamper, st.ret, user_operations,
                       <<>>, <<>>, {}, NoPre)
       /\ UNCHANGED <<chan, dq, added, batches, dels>>

\* run with count >= 1 operations
run_batch(user_operations) ==
    LET b == get_batch_opstamps(stamper, Len(user_operations))
        r == run_loop(epoch, user_operations, 1, b.start, b.end,
                      [adds |-> <<>>, q |-> dq[epoch], stamped |-> <<>>])
        pushed == SubSeq(r.q.writer, Len(dq[epoch].writer) + 1, Len(r.q.writer))
    IN /\ stamper' = b.next
       /\ dq' = [dq EXCEPT ![epoch] = r.q]
       /\ chan' = send(chan, epoch, slot, r.adds)
       /\ added' = added \cup Range(r.adds)
       /\ batches' = IF r.adds = <<>> THEN batches ELSE batches \cup {r.adds}
       /\ dels' = dels \cup Range(pushed)
       /\ stamps_log' = stamps_log \o r.stamped \o <<b.batch_opstamp>>
       /\ last' = Call("run", "ok", stamper, b.batch_opstamp, user_operations,
                       r.adds, pushed, {}, NoPre)

run(user_operations) ==
    /\ Idle
    /\ stamper + Len(user_operations) + 1 <= MaxStamp
    /\ Len(chan[epoch][slot].q) < PIPELINE_MAX_SIZE_IN_DOCS
    /\ IF Len(user_operations) = 0
       THEN run_empty(user_operations)
       ELSE run_batch(user_operations)
    /\ returned_max' = last'.ret
    /\ UNCHANGED <<dir_vars, alive, directory_lock, committed_opstamp, generation,
                   fixed_vars, epoch, slot, call_vars, su, workers, cdels, ended,
                   late_install, initial>>

\* commit_opstamp()
commit_opstamp == committed_opstamp

\* ------------------------------------------------------- indexing workers
Done == [NoWorker EXCEPT !.pc = "done"]

\* Instance e is no longer referenced by the IndexWriter value (it was
\* replaced or dropped) nor by a rollback that still drains its channel.
Unreferenced(e) == (e # epoch \/ ~alive) /\ ~(pc = "drain" /\ drain.e = e)

\* Worker i of instance e returns; ch is chan as it leaves it.  With the
\* last thread of an unreferenced instance its channel, delete queue and
\* segment updater are dropped.
worker_return(e, i, ch) ==
    LET ws == [workers[e] EXCEPT ![i] = Done]
        drop == Unreferenced(e) /\ Dead(ws)
    IN /\ workers' = [workers EXCEPT ![e] = IF drop THEN NoWorkers ELSE ws]
       /\ chan' = [ch EXCEPT ![e] = IF drop THEN NoChannels ELSE @]
       /\ dq' = [dq EXCEPT ![e] = IF drop THEN DeleteQueue_new ELSE @]
       /\ su' = [su EXCEPT ![e] = IF drop THEN NoUpdater ELSE @]

\* a faulty variant: an empty batch at the head of the loop does not end the
\* worker, which starts a segment with it
worker_peek_any(e, i) ==
    LET w == workers[e][i]
        ch == chan[e][w.slot]
    IN /\ w.pc = "peek"
       /\ \/ /\ ch.q # <<>>
             /\ LET operations == Head(ch.q)
                    sk == IF operations = <<>>
                          THEN [q |-> dq[e], c |-> w.delete_cursor]
                          ELSE skip_to(dq[e], w.delete_cursor, operations[1].opstamp)
                IN /\ chan' = [chan EXCEPT ![e][w.slot].q = Tail(@)]
                   /\ dq' = [dq EXCEPT ![e] = sk.q]
                   /\ su' = su
                   /\ \E full \in BOOLEAN :
                        workers' = [workers EXCEPT ![e][i] =
                            [w EXCEPT !.pc = IF full THEN "alive" ELSE "feed",
                                      !.delete_cursor = sk.c,
                                      !.docs = operations]]
          \/ /\ ch.q = <<>>
             /\ ~ch.open
             /\ worker_return(e, i, chan)
       /\ UNCHANGED <<dir_vars, writer_vars, call_vars, hist_vars, last>>

\* The head of the worker loop: peek the channel; leave when it is closed and
\* drained or when the peeked batch is empty; otherwise skip the delete
\* cursor to the first add and start a segment with the peeked batch (the
\* first round of the feeding loop of index_documents).  full: the builder
\* reports mem_usage >= memory_budget - MARGIN_IN_BYTES after the batch.
worker_peek(e, i) ==
    LET w == workers[e][i]
        ch == chan[e][w.slot]
    IN /\ w.pc = "peek"
       /\ \/ /\ ch.q # <<>>
             /\ LET operations == Head(ch.q)
                    popped == [chan EXCEPT ![e][w.slot].q = Tail(@)]
                IN IF operations = <<>>
                   THEN worker_return(e, i, popped)
                   ELSE LET sk == skip_to(dq[e], w.delete_cursor, operations[1].opstamp)
                        IN /\ chan' = popped
                           /\ dq' = [dq EXCEPT ![e] = sk.q]
                           /\ su' = su
                           /\ \E full \in BOOLEAN :
                                workers' = [workers EXCEPT ![e][i] =
                                    [w EXCEPT !.pc = IF full THEN "alive" ELSE "feed",
                                              !.delete_cursor = sk.c,
                                              !.docs = operations]]
          \/ /\ ch.q = <<>>
             /\ ~ch.open
             /\ worker_return(e, i, chan)
       /\ UNCHANGED <<dir_vars, writer_vars, call_vars, hist_vars, last>>

\* a faulty variant: the memory budget is checked after every document, so
\* a batch is cut where the budget is reached
index_documents_feed_split(e, i) ==
    LET w == workers[e][i]
        ch == chan[e][w.slot]
    IN /\ w.pc = "feed"
       /\ \/ /\ ch.q # <<>>
             /\ \E full \in BOOLEAN :
                  IF full /\ Len(Head(ch.q)) > 1
                  THEN /\ chan' = [chan EXCEPT ![e][w.slot].q =
                                      <<Tail(Head(ch.q))>> \o Tail(@)]
                       /\ workers' = [workers EXCEPT ![e][i] =
                             [w EXCEPT !.pc = "alive",
                                       !.docs = Append(@, Head(Head(ch.q)))]]
                  ELSE /\ chan' = [chan EXCEPT ![e][w.slot].q = Tail(@)]
                       /\ workers' = [workers EXCEPT ![e][i] =
                             [w EXCEPT !.pc = IF full THEN "alive" ELSE "feed",
                                       !.docs = @ \o Head(ch.q)]]
          \/ /\ ch.q = <<>>
             /\ ~ch.open
             /\ workers' = [workers EXCEPT ![e][i].pc = "alive"]
             /\ chan' = chan
       /\ UNCHANGED <<dir_vars, writer_vars, call_vars, dq, su, hist_vars, last>>

\* a faulty variant: the documents of a batch are put in front of those the
\* segment already holds
index_documents_feed_front(e, i) ==
    LET w == workers[e][i]
        ch == chan[e][w.slot]
    IN /\ w.pc = "feed"
       /\ \/ /\ ch.q # <<>>
             /\ chan' = [chan EXCEPT ![e][w.slot].q = Tail(@)]
             /\ \E full \in BOOLEAN :
                  workers' = [workers EXCEPT ![e][i] =
                      [w EXCEPT !.pc = IF full THEN "alive" ELSE "feed",
                                !.docs = Head(ch.q) \o @]]
          \/ /\ ch.q = <<>>
             /\ ~ch.open
             /\ workers' = [workers EXCEPT ![e][i].pc = "alive"]
             /\ chan' = chan
       /\ UNCHANGED <<dir_vars, writer_vars, call_vars, dq, su, hist_vars, last>>

\* one more round of the feeding loop of index_documents
index_documents_feed(e, i) ==
    LET w == workers[e][i]
        ch == chan[e][w.slot]
    IN /\ w.pc = "feed"
       /\ \/ /\ ch.q # <<>>
             /\ chan' = [chan EXCEPT ![e][w.slot].q = Tail(@)]
             /\ \E full \in BOOLEAN :
                  workers' = [workers EXCEPT ![e][i] =
                      [w EXCEPT !.pc = IF full THEN "alive" ELSE "feed",
                                !.docs = @ \o Head(ch.q)]]
          \/ /\ ch.q = <<>>
             /\ ~ch.open
             /\ workers' = [workers EXCEPT ![e][i].pc = "alive"]
             /\ chan' = chan
       /\ UNCHANGED <<dir_vars, writer_vars, call_vars, dq, su, hist_vars, last>>

\* the kill flag is not consulted: the worker always goes on to finalize
index_documents_alive_unchecked(e, i) ==
    LET w == workers[e][i]
    IN /\ w.pc = "alive"
       /\ workers' = [workers EXCEPT ![e][i] = [w EXCEPT !.pc = "publish"]]
       /\ UNCHANGED <<dir_vars, writer_vars, call_vars, chan, dq, su, hist_vars, last>>

\* if !segment_updater.is_alive() { return Ok(false); }
index_documents_alive(e, i) ==
    LET w == workers[e][i]
    IN /\ w.pc = "alive"
       /\ workers' = [workers EXCEPT ![e][i] =
             IF su[e].killed
             THEN [w EXCEPT !.pc = "peek", !.docs = <<>>]
             ELSE [w EXCEPT !.pc = "publish"]]
       /\ UNCHANGED <<dir_vars, writer_vars, call_vars, chan, dq, su, hist_vars, last>>

\* finalize, the initial delete bitset, the segment entry: [entry, q]
index_documents_finalize(docs, q, delete_cursor) ==
    LET doc_opstamps == [k \in 1..Len(docs) |-> docs[k].opstamp]
        segment_meta == SegmentMeta_new(docs)
        last_docstamp == doc_opstamps[Len(doc_opstamps)]
        g == get(q, delete_cursor)
        r == IF g.op # NoOp
             THEN compute_deleted_bitset({}, docs, g.q, g.c,
                                         DocToOpstampMapping_from(doc_opstamps),
                                         last_docstamp)
             ELSE [bitset |-> {}, q |-> g.q, c |-> g.c]
    IN [entry |-> SegmentEntry_new(segment_meta, r.c, r.bitset), q |-> r.q]

index_documents_publish(e, i) ==
    LET w == workers[e][i]
    IN /\ w.pc = "publish"
       /\ Len(w.docs) > 0
       /\ LET f == index_documents_finalize(w.docs, dq[e], w.delete_cursor)
              a == add_segment(su[e], w.generation, f.entry)
          IN /\ dq' = [dq EXCEPT ![e] = f.q]
             /\ su' = [su EXCEPT ![e] = a.su]
             /\ late_install' = (late_install \/ (a.accepted /\ ended[e] # NoStamp))
       /\ workers' = [workers EXCEPT ![e][i] = [w EXCEPT !.pc = "peek", !.docs = <<>>]]
       /\ UNCHANGED <<dir_vars, writer_vars, call_vars, chan, added, batches, dels, cdels,
                      ended, initial, returned_max, stamps_log, last>>

\* ------------------------------------------------ prepare_commit / commit
\* a faulty variant of recreate_document_channel: the former sender is kept
prepare_commit_begin_keeping_sender ==
    /\ Idle
    /\ stamper < MaxStamp
    /\ chan' = [chan EXCEPT ![epoch][1 - slot] = channel_bounded]
    /\ slot' = 1 - slot
    /\ pc' = "joining"
    /\ join_i' = 1
    /\ UNCHANGED <<dir_vars, alive, directory_lock, stamper, committed_opstamp,
                   generation, fixed_vars, epoch, commit_stamp, drain, dq, su,
                   workers, hist_vars, last>>

\* recreate_document_channel: the old sender is dropped, the old receiver is
\* left to the workers that hold a clone of it
prepare_commit_begin ==
    /\ Idle
    /\ stamper < MaxStamp
    /\ chan' = [chan EXCEPT ![epoch][slot].open = FALSE,
                            ![epoch][1 - slot] = channel_bounded]
    /\ slot' = 1 - slot
    /\ pc' = "joining"
    /\ join_i' = 1
    /\ UNCHANGED <<dir_vars, alive, directory_lock, stamper, committed_opstamp,
                   generation, fixed_vars, epoch, commit_stamp, drain, dq, su,
                   workers, hist_vars, last>>

\* the new worker is given the receiver of the former channel
prepare_commit_join_former ==
    /\ alive
    /\ pc = "joining"
    /\ join_i <= num_threads
    /\ workers[epoch][join_i].pc = "done"
    /\ workers' = [workers EXCEPT ![epoch][join_i] =
                      add_indexing_worker(1 - slot, generation, dq[epoch])]
    /\ join_i' = join_i + 1
    /\ UNCHANGED <<dir_vars, writer_vars, pc, commit_stamp, drain, chan, dq, su,
                   hist_vars, last>>

\* worker_handle.join() of a finished worker, then add_indexing_worker
prepare_commit_join ==
    /\ alive
    /\ pc = "joining"
    /\ join_i <= num_threads
    /\ workers[epoch][join_i].pc = "done"
    /\ workers' = [workers EXCEPT ![epoch][join_i] =
                      add_indexing_worker(slot, generation, dq[epoch])]
    /\ join_i' = join_i + 1
    /\ UNCHANGED <<dir_vars, writer_vars, pc, commit_stamp, drain, chan, dq, su,
                   hist_vars, last>>

\* the former receiver is dropped; the commit opstamp is drawn
prepare_commit_end ==
    /\ alive
    /\ pc = "joining"
    /\ join_i > num_threads
    /\ LET st == stamp(stamper)
       IN /\ stamper' = st.next
          /\ commit_stamp' = st.ret
          /\ stamps_log' = Append(stamps_log, st.ret)
          /\ last' = Call("prepare_commit", "ok", stamper, st.ret, <<>>, <<>>, <<>>,
                          {}, NoPre)
    /\ pc' = "prepared"
    /\ join_i' = 0
    /\ chan' = [chan EXCEPT ![epoch][1 - slot] = NoChannel]
    /\ UNCHANGED <<dir_vars, alive, directory_lock, committed_opstamp, generation,
                   fixed_vars, epoch, slot, drain, dq, su, workers, added, batches, dels,
                   cdels, ended, late_install, initial, returned_max>>

\* PreparedCommit::commit, the meta write succeeds: the deletes of every
\* entry are advanced to the commit opstamp, the segment set and the opstamp
\* are written to meta.json
commit_ok ==
    /\ alive
    /\ pc = "prepared"
    /\ LET p == purge_deletes(su[epoch].entries, dq[epoch], commit_stamp)
       IN /\ su' = [su EXCEPT ![epoch].entries = p.entries]
          /\ dq' = [dq EXCEPT ![epoch] = p.q]
          /\ metas' = [opstamp |-> commit_stamp,
                       segments |-> {en.meta : en \in p.entries}]
    /\ pc' = "idle"
    /\ commit_stamp' = NoStamp
    /\ added' = {}
    /\ dels' = {}
    /\ cdels' = cdels \cup dels
    /\ last' = Call("commit", "ok", stamper, commit_stamp, <<>>, <<>>, <<>>, added,
                    [metas |-> metas, committed_opstamp |-> committed_opstamp])
    /\ UNCHANGED <<flock, other, other_last, writer_vars, join_i, drain, chan,
                   workers, batches, ended, late_install, initial, returned_max,
                   stamps_log>>

\* a faulty variant: the failed write leaves the new opstamp in meta.json
commit_fail_torn ==
    /\ alive
    /\ pc = "prepared"
    /\ pc' = "idle"
    /\ commit_stamp' = NoStamp
    /\ metas' = [metas EXCEPT !.opstamp = commit_stamp + 1]
    /\ last' = Call("commit", "IOError", stamper, NoStamp, <<>>, <<>>, <<>>, {},
                    [metas |-> metas, committed_opstamp |-> committed_opstamp])
    /\ UNCHANGED <<flock, other, other_last, writer_vars, join_i, drain, thread_vars,
                   hist_vars>>

\* PreparedCommit::commit, the atomic_write of meta.json fails: the commit is
\* aborted with an error, the in-memory segment set is as before
commit_fail ==
    /\ alive
    /\ pc = "prepared"
    /\ pc' = "idle"
    /\ commit_stamp' = NoStamp
    /\ last' = Call("commit", "IOError", stamper, NoStamp, <<>>, <<>>, <<>>, {},
                    [metas |-> metas, committed_opstamp |-> committed_opstamp])
    /\ UNCHANGED <<dir_vars, writer_vars, join_i, drain, thread_vars, hist_vars>>

\* --------------------------------------------------------------- rollback
\* a faulty variant: the segment updater is not killed
rollback_kill_skipped ==
    /\ alive
    /\ pc \in {"idle", "prepared"}
    /\ Quiet
    /\ directory_lock
    /\ epoch < MaxEpoch
    /\ pc' = "rollback"
    /\ commit_stamp' = NoStamp
    /\ UNCHANGED <<dir_vars, writer_vars, join_i, drain, thread_vars, hist_vars, last>>

\* self.segment_updater.kill().  Called on the writer or through
\* PreparedCommit::abort.  (Without a lock the expect() below it panics.)
rollback_kill ==
    /\ alive
    /\ pc \in {"idle", "prepared"}
    /\ Quiet
    /\ directory_lock
    /\ epoch < MaxEpoch
    /\ su' = [su EXCEPT ![epoch].killed = TRUE]
    /\ pc' = "rollback"
    /\ commit_stamp' = NoStamp
    /\ UNCHANGED <<dir_vars, writer_vars, join_i, drain, chan, dq, workers,
                   hist_vars, last>>

\* The lock is taken out of the writer and handed to open_index_writer, the
\* new writer replaces the old one, whose sender is dropped.
rollback_open_ok ==
    /\ alive
    /\ pc = "rollback"
    /\ open_index_writer(epoch + 1, [chan EXCEPT ![epoch][slot].open = FALSE])
    /\ drain' = [e |-> epoch, s |-> slot]
    /\ pc' = "drain"
    /\ ended' = [ended EXCEPT ![epoch] = metas.opstamp]
    /\ added' = {}
    /\ dels' = {}
    /\ UNCHANGED <<dir_vars, alive, fixed_vars, join_i, commit_stamp, cdels,
                   late_install, returned_max, batches, last>>

\* open_index_writer fails (load_metas, SegmentUpdater::create, or spawning a
\* thread returns an error): the lock it was given is dropped and rollback
\* returns the error, leaving the old writer in place without its lock.
rollback_open_err ==
    /\ alive
    /\ pc = "rollback"
    /\ directory_lock' = FALSE
    /\ flock' = flock \ {"writer"}
    /\ pc' = "idle"
    /\ last' = Call("rollback", "IOError", stamper, NoStamp, <<>>, <<>>, <<>>,
                    {}, NoPre)
    /\ UNCHANGED <<metas, other, other_last, alive, stamper, committed_opstamp,
                   generation, fixed_vars, epoch, slot, join_i, commit_stamp, drain,
                   thread_vars, hist_vars>>

\* for _ in document_receiver.clone() {}
rollback_drain ==
    /\ alive
    /\ pc = "drain"
    /\ chan[drain.e][drain.s].q # <<>>
    /\ chan' = [chan EXCEPT ![drain.e][drain.s].q = Tail(@)]
    /\ UNCHANGED <<dir_vars, writer_vars, call_vars, dq, su, workers, hist_vars, last>>

\* the receiver clone reports the channel closed: rollback returns Ok
rollback_end ==
    /\ alive
    /\ pc = "drain"
    /\ chan[drain.e][drain.s].q = <<>>
    /\ ~chan[drain.e][drain.s].open
    /\ pc' = "idle"
    /\ drain' = [e |-> 0, s |-> 0]
    /\ LET drop == Dead(workers[drain.e])
       IN /\ workers' = [workers EXCEPT ![drain.e] = IF drop THEN NoWorkers ELSE @]
          /\ chan' = [chan EXCEPT ![drain.e] = IF drop THEN NoChannels ELSE @]
          /\ dq' = [dq EXCEPT ![drain.e] = IF drop THEN DeleteQueue_new ELSE @]
          /\ su' = [su EXCEPT ![drain.e] = IF drop THEN NoUpdater ELSE @]
    /\ last' = Call("rollback", "ok", stamper, NoStamp, <<>>, <<>>, <<>>, {}, NoPre)
    /\ UNCHANGED <<dir_vars, writer_vars, join_i, commit_stamp, hist_vars>>

\* ------------------------------------------------ wait_merging_threads
\* drop(self.document_sender); the handles are taken out of the writer
wait_merging_threads_begin ==
    /\ Idle
    /\ chan' = [chan EXCEPT ![epoch][slot].open = FALSE]
    /\ pc' = "waiting"
    /\ join_i' = 1
    /\ UNCHANGED <<dir_vars, writer_vars, commit_stamp, drain, dq, su, workers,
                   hist_vars, last>>

\* join_handle.join() of a finished worker
wait_merging_threads_join ==
    /\ alive
    /\ pc = "waiting"
    /\ join_i <= num_threads
    /\ workers[epoch][join_i].pc = "done"
    /\ join_i' = join_i + 1
    /\ UNCHANGED <<dir_vars, writer_vars, pc, commit_stamp, drain, thread_vars,
                   hist_vars, last>>

\* segment_updater.wait_merging_thread() returns; the writer, taken by
\* value, is dropped with its lock
wait_merging_threads_end ==
    /\ alive
    /\ pc = "waiting"
    /\ join_i > num_threads
    /\ alive' = FALSE
    /\ flock' = IF directory_lock THEN flock \ {"writer"} ELSE flock
    /\ directory_lock' = FALSE
    /\ workers' = [workers EXCEPT ![epoch] = NoWorkers]
    /\ chan' = [chan EXCEPT ![epoch] = NoChannels]
    /\ dq' = [dq EXCEPT ![epoch] = DeleteQueue_new]
    /\ su' = [su EXCEPT ![epoch] = NoUpdater]
    /\ pc' = "idle"
    /\ join_i' = 0
    /\ added' = {}
    /\ dels' = {}
    /\ last' = Call("wait_merging_threads", "ok", stamper, NoStamp, <<>>, <<>>, <<>>,
                    {}, NoPre)
    /\ UNCHANGED <<metas, other, other_last, stamper, committed_opstamp, generation,
                   fixed_vars, epoch, slot, commit_stamp, drain, cdels, ended,
                   late_install, initial, returned_max, stamps_log, batches>>

\* ------------------------------------------------- the directory lock
\* MmapDirectory::acquire_lock: [ok, err, holders].  A blocking request
\* waits (here: is not granted) while the lock is held.
acquire_lock(holders, who, is_blocking) ==
    IF holders # {}
    THEN [ok |-> FALSE, err |-> IF is_blocking THEN "wait" ELSE "LockBusy",
          holders |-> holders]
    ELSE [ok |-> TRUE, err |-> "ok", holders |-> holders \cup {who}]

\* the IndexWriter is dropped: its lock (if it has one) is released and its
\* sender is dropped; its worker threads are detached
drop_writer ==
    /\ Idle
    /\ alive' = FALSE
    /\ flock' = IF directory_lock THEN flock \ {"writer"} ELSE flock
    /\ directory_lock' = FALSE
    /\ LET drop == Dead(workers[epoch])
       IN /\ workers' = [workers EXCEPT ![epoch] = IF drop THEN NoWorkers ELSE @]
          /\ chan' = [chan EXCEPT ![epoch] =
                         IF drop THEN NoChannels ELSE [@ EXCEPT ![slot].open = FALSE]]
          /\ dq' = [dq EXCEPT ![epoch] = IF drop THEN DeleteQueue_new ELSE @]
          /\ su' = [su EXCEPT ![epoch] = IF drop THEN NoUpdater ELSE @]
    /\ added' = {}
    /\ dels' = {}
    /\ last' = Call("drop", "ok", stamper, NoStamp, <<>>, <<>>, <<>>, {}, NoPre)
    /\ UNCHANGED <<metas, other, other_last, stamper, committed_opstamp, generation,
                   fixed_vars, epoch, slot, call_vars, cdels, ended, late_install,
                   initial, returned_max, stamps_log, batches>>

\* Index::writer: the non-blocking writer lock is busy
index_writer_busy ==
    /\ ~alive
    /\ \A e \in Epochs : Dead(workers[e])
    /\ LET l == acquire_lock(flock, "writer", FALSE)
       IN /\ ~l.ok
          /\ last' = Call("open", l.err, stamper, NoStamp, <<>>, <<>>, <<>>, {}, NoPre)
    /\ UNCHANGED <<dir_vars, writer_vars, call_vars, thread_vars, hist_vars>>

\* Index::writer: the lock is acquired, open_index_writer fails and drops it
index_writer_err ==
    /\ ~alive
    /\ \A e \in Epochs : Dead(workers[e])
    /\ acquire_lock(flock, "writer", FALSE).ok
    /\ last' = Call("open", "IOError", stamper, NoStamp, <<>>, <<>>, <<>>, {}, NoPre)
    /\ UNCHANGED <<dir_vars, writer_vars, call_vars, thread_vars, hist_vars>>

\* Index::writer: the lock is acquired and handed to open_index_writer
index_writer ==
    /\ ~alive
    /\ \A e \in Epochs : Dead(workers[e])
    /\ epoch < MaxEpoch
    /\ LET l == acquire_lock(flock, "writer", FALSE)
       IN /\ l.ok
          /\ flock' = l.holders
    /\ alive' = TRUE
    /\ open_index_writer(epoch + 1, chan)
    /\ returned_max' = NoStamp
    /\ last' = Call("open", "ok", metas.opstamp, NoStamp, <<>>, <<>>, <<>>, {}, NoPre)
    /\ UNCHANGED <<metas, other, other_last, fixed_vars, call_vars, added, batches, dels,
                   cdels, ended, late_install>>

\* a second handle: Index::writer called while the first IndexWriter may
\* still exist; it only holds the lock until it is dropped
other_open ==
    /\ ~other
    /\ LET l == acquire_lock(flock, "other", FALSE)
       IN /\ flock' = l.holders
          /\ other' = l.ok
          /\ other_last' = l.err
    /\ UNCHANGED <<metas, writer_vars, call_vars, thread_vars, hist_vars, last>>

other_drop ==
    /\ other
    /\ other' = FALSE
    /\ flock' = flock \ {"other"}
    /\ UNCHANGED <<metas, other_last, writer_vars, call_vars, thread_vars, hist_vars,
                   last>>

\* ------------------------------------------------------------------ Next
\* the calls on the IndexWriter and on a PreparedCommit
WriterCalls ==
    \/ \E t \in Terms : add_document(t)
    \/ \E t \in DeleteTerms : delete_term(t)
    \/ \E ops \in RunInputs : run(ops)
    \/ prepare_commit_begin
    \/ prepare_commit_join
    \/ prepare_commit_end
    \/ commit_ok
    \/ commit_fail
    \/ rollback_kill
    \/ rollback_open_ok
    \/ rollback_drain
    \/ rollback_end

\* the steps of the worker threads
WorkerSteps ==
    \E e \in Epochs, i \in Threads :
        \/ worker_peek(e, i)
        \/ index_documents_feed(e, i)
        \/ index_documents_alive(e, i)
        \/ index_documents_publish(e, i)

Next == WriterCalls \/ WorkerSteps

Spec == Init /\ [][Next]_vars

\* the life of the lock: the writer is opened, rolled back and dropped, its
\* open_index_writer may fail, and a second handle is asked for
LockCalls ==
    \/ stamper < MaxLockStamp /\ add_document("a")
    \/ rollback_kill
    \/ rollback_open_ok
    \/ rollback_open_err
    \/ rollback_drain
    \/ rollback_end
    \/ drop_writer
    \/ index_writer
    \/ index_writer_busy
    \/ index_writer_err
    \/ other_open
    \/ other_drop

NextLock == LockCalls \/ WorkerSteps

SpecLock == Init /\ [][NextLock]_vars

\* The calls that wait for the worker threads, under fair scheduling: a
\* thread that can take a step is not held back for ever, and a call that has
\* begun goes on.  Which calls are made, and when, is left free.
JoinCalls ==
    \/ stamper < MaxJoinStamp /\ \E t \in Terms : add_document(t)
    \/ stamper + 1 < MaxJoinStamp /\ run(<<Delete("a")>>)
    \/ prepare_commit_begin
    \/ prepare_commit_join
    \/ prepare_commit_end
    \/ commit_ok
    \/ rollback_kill
    \/ rollback_open_ok
    \/ rollback_drain
    \/ rollback_end
    \/ wait_merging_threads_begin
    \/ wait_merging_threads_join
    \/ wait_merging_threads_end

\* the steps by which a call that has begun goes on
CallSteps ==
    \/ prepare_commit_join
    \/ prepare_commit_end
    \/ rollback_open_ok
    \/ rollback_drain
    \/ rollback_end
    \/ wait_merging_threads_join
    \/ wait_merging_threads_end

\* the steps of worker i of instance e
worker_step(e, i) ==
    \/ worker_peek(e, i)
    \/ index_documents_feed(e, i)
    \/ index_documents_alive(e, i)
    \/ index_documents_publish(e, i)

NextJoin == JoinCalls \/ WorkerSteps

SpecJoin == Init /\ [][NextJoin]_vars

SpecJoinFair ==
    /\ SpecJoin
    /\ WF_vars(CallSteps)
    /\ \A e \in Epochs, i \in Threads : WF_vars(worker_step(e, i))


\* ------------------------------------------------------------- properties
\* the segments of meta.json that contain the document d
segments_of(d) == {m \in metas.segments : d \in Range(m.docs)}

\* the call made last has returned (a rollback replaces the writer before it
\* has drained the channel and returned)
Returned == pc # "drain"

\* C1: after commit() has returned Ok, every document added since the
\* previous commit or rollback is in exactly one segment of the committed
\* segment set.
C1_CommitContainsEveryAdd ==
    (last.op = "commit" /\ last.ok) =>
        \A d \in last.docs : Cardinality(segments_of(d)) = 1

\* C2: after commit() has returned Ok(c), commit_opstamp() returns c.
C2_CommitOpstampIsCommitStamp ==
    (last.op = "commit" /\ last.ok /\ Returned) => commit_opstamp = last.ret

C4_RollbackDiscards ==
    /\ ~late_install
    /\ \A m \in metas.segments : \A i \in 1..Len(m.docs) :
          /\ ended[m.docs[i].e] # NoStamp => m.docs[i].opstamp < ended[m.docs[i].e]
          /\ (i - 1) \in m.deleted => \E d \in cdels : d.term = m.docs[i].term
    /\ (last.op = "rollback" /\ last.ok /\ Returned) => commit_opstamp = metas.opstamp

\* a worker of a rolled-back instance holds documents and is about to hand
\* its segment to the segment updater
C4_Witness ==
    \E e \in Epochs, i \in Threads :
        /\ ended[e] # NoStamp
        /\ workers[e][i].pc = "publish"
        /\ workers[e][i].docs # <<>>

\* C5: the stamps a writer has handed out since it was opened are, in the
\* order they were drawn, initial, initial + 1, ..., current - 1.
C5_StampsContiguous ==
    alive => stamps_log = [k \in 1..(stamper - initial) |-> initial + k - 1]

\* adds, deletes and a run were stamped and prepare_commit drew the last stamp
C5_Witness ==
    /\ last.op = "prepare_commit"
    /\ Len(stamps_log) = MaxStamp
    /\ added # {}
    /\ dels # {}

\* the operations of a run with the stamps start, start + 1, ...
stamped(user_operations, start) ==
    [k \in 1..Len(user_operations) |->
        [kind |-> user_operations[k].kind, term |-> user_operations[k].term,
         opstamp |-> start + k - 1]]

IsAdd(o) == o.kind = "Add"
IsDelete(o) == o.kind = "Delete"
unstamp(ops) == [k \in 1..Len(ops) |-> [opstamp |-> ops[k].opstamp, term |-> ops[k].term]]

\* C6: run(ops) with len >= 1 operations draws the stamps s .. s + len, the
\* i-th operation gets s + i, the deletes are pushed with their stamps, the
\* adds are sent in their order as one batch, and s + len is returned.
C6_RunStampsInOrder ==
    (last.op = "run" /\ Len(last.arg) >= 1) =>
        LET ops == stamped(last.arg, last.start)
        IN /\ last.ret = last.start + Len(last.arg)
           /\ Returned => stamper = last.ret + 1
           /\ unstamp(last.batch) = unstamp(SelectSeq(ops, IsAdd))
           /\ unstamp(last.pushed) = unstamp(SelectSeq(ops, IsDelete))

\* run([Add(a), Add(b)]) on a fresh index has returned 2
C6_Witness ==
    /\ last.op = "run"
    /\ last.arg = <<Add("a"), Add("b")>>
    /\ last.start = 0
    /\ last.ret = 2
    /\ metas.segments = {}

\* the last two calls were run([]) and run([])
TwoEmptyRuns ==
    /\ last.op = "run" /\ last.arg = <<>>
    /\ last'.op = "run" /\ last'.arg = <<>>
    /\ last'.tick # last.tick

\* C7: run([]) returns the stamper's value and draws exactly that stamp, and
\* a second run([]) right after it returns the next value.
C7_EmptyRunDrawsOneStamp ==
    /\ []((last.op = "run" /\ last.arg = <<>>) =>
            /\ last.ret = last.start
            /\ last.batch = <<>> /\ last.pushed = <<>>
            /\ Returned => stamper = last.start + 1)
    /\ [][TwoEmptyRuns => last'.ret = last.ret + 1]_vars

\* run([]) has returned a stamp that is not the first one
C7_Witness ==
    /\ last.op = "run"
    /\ last.arg = <<>>
    /\ last.ret >= 1
    /\ stamper = last.ret + 1

\* C8: when the write of meta.json fails, commit() returns an error,
\* meta.json is what it was before the call and so is commit_opstamp().
C8_FailedCommitPreserves ==
    (last.op = "commit" /\ ~last.ok /\ Returned) =>
        /\ metas = last.pre.metas
        /\ commit_opstamp = last.pre.committed_opstamp

\* a commit of new documents has failed after an earlier one succeeded
C8_Witness ==
    /\ last.op = "commit"
    /\ ~last.ok
    /\ added # {}
    /\ metas.segments # {}

\* C9: no second writer is opened on the directory while the first exists.
C9_AtMostOneWriter == ~(alive /\ other)

\* C10: while the IndexWriter exists it holds the directory lock.
C10_LockHeldWhileAlive == alive => (directory_lock /\ "writer" \in flock)

\* C11: once every indexing worker of the live writer has terminated, no
\* add_document call returns a stamp (it panics instead).
C11_AddPanicsWithoutWorkers ==
    [][(alive /\ pc = "idle" /\ Dead(workers[epoch]))
          => ~(last'.op = "add_document" /\ last'.ok /\ last'.tick # last.tick)]_vars

\* the documents of every segment: those a worker is building, those the
\* segment updaters hold, and those meta.json lists
segment_docs ==
    {Range(workers[e][i].docs) : e \in Epochs, i \in Threads}
        \cup UNION {{Range(en.meta.docs) : en \in su[e].entries} : e \in Epochs}
        \cup {Range(m.docs) : m \in metas.segments}

\* C20: the adds of one run(batch) are never split: every segment, while it
\* is built and once it is published or committed, holds all the adds of a
\* batch or none of them.
C20_BatchInOneSegment ==
    \A b \in batches : \A docs \in segment_docs :
        Range(b) \cap docs = {} \/ Range(b) \subseteq docs

\* a batch of two adds was fed to a segment that already held a document,
\* and the segment was published
C20_Witness ==
    \E b \in batches : \E en \in su[epoch].entries :
        /\ Len(b) = 2
        /\ Range(b) \subseteq Range(en.meta.docs)
        /\ Len(en.meta.docs) = 3
        /\ en.meta.docs[1] \notin Range(b)

\* ------------------------------------------- the document channel under load
\* channel::bounded(PIPELINE_MAX_SIZE_IN_DOCS) with one sender (the caller of
\* add_document or run) and the workers as receivers.  pipe.len is the number
\* of batches queued; pipe.sender is "blocked" while a send waits for room;
\* pipe.removed records that a worker took a batch since the send began to
\* wait.
is_full_above(len) == len > PIPELINE_MAX_SIZE_IN_DOCS

is_full(len) == len >= PIPELINE_MAX_SIZE_IN_DOCS

\* document_sender.send(batch) of add_document and run: the batch is queued
\* and the call returns, or the call waits while the channel is full
document_sender_send ==
    /\ pipe.sender = "idle"
    /\ pipe' = IF is_full(pipe.len)
               THEN [pipe EXCEPT !.sender = "blocked", !.removed = FALSE]
               ELSE [pipe EXCEPT !.len = @ + 1]
    /\ UNCHANGED <<write_path_vars, tq, md, heap, rl, cq, mg, tb, ad, wd>>

\* the waiting send is woken once there is room
document_sender_wake ==
    /\ pipe.sender = "blocked"
    /\ ~is_full(pipe.len)
    /\ pipe' = [pipe EXCEPT !.len = @ + 1, !.sender = "idle"]
    /\ UNCHANGED <<write_path_vars, tq, md, heap, rl, cq, mg, tb, ad, wd>>

\* a worker takes the next batch from its receiver
document_receiver_next ==
    /\ pipe.len > 0
    /\ pipe' = [pipe EXCEPT !.len = @ - 1, !.removed = TRUE]
    /\ UNCHANGED <<write_path_vars, tq, md, heap, rl, cq, mg, tb, ad, wd>>

NextPipe == document_sender_send \/ document_sender_wake \/ document_receiver_next

SpecPipe == Init /\ [][NextPipe]_vars

\* C12: the add channel never holds more than 10,000 batches, and a send
\* issued while it holds 10,000 returns only after a worker removed a batch.
C12_ChannelBounded ==
    /\ [](pipe.len <= 10000)
    /\ [][(pipe.sender = "idle" /\ pipe.len = 10000) => pipe'.len <= 10000]_vars
    /\ [][(pipe.sender = "blocked" /\ pipe'.sender = "idle") => pipe.removed]_vars

\* a send that found 10,000 batches queued has returned
C12_Witness == pipe.len = 10000 /\ pipe.sender = "idle" /\ pipe.removed

\* ------------------------------------------------ the DeleteQueue on its own
\* One DeleteQueue tq.q, its producer and two DeleteCursors tq.c[1], tq.c[2]
\* (test_deletequeue).  The k-th operation pushed has opstamp k.  History:
\* tq.at[i] is the number of operations pushed before cursor i was made,
\* tq.start[i] the position it was made at, tq.seen[i] the opstamps of the
\* operations cursor i has advanced over, tq.twin how cursor 2 was
\* made at the point of cursor 1 ("cursor": by cursor() with no push since
\* cursor 1 was made; "clone": as a clone of cursor 1, which had yielded
\* tq.from operations), tq.stalled[i] what told cursor i that it is at the end
\* of the queue since it last moved (0 nothing, 1 a get() that returned None,
\* 2 an advance() that returned false), tq.last the last call on a cursor.

\* the operations of the queue in block order, then the unflushed ones
RECURSIVE block_operations(_, _)
block_operations(q, b) ==
    IF b = 0 THEN <<>> ELSE block_operations(q, b - 1) \o q.blocks[b].operations

operations(q) == block_operations(q, Len(q.blocks)) \o q.writer

\* the number of operations of the queue before the cursor
position(q, c) == Len(block_operations(q, c.block - 1)) + c.pos

tq_push ==
    /\ tq.n < MaxPushes
    /\ tq' = [tq EXCEPT !.q = push(@, DeleteOperation(tq.n + 1, "a")), !.n = @ + 1,
                        !.last = CursorCall("push", 1, FALSE, 0, 0, FALSE)]
    /\ UNCHANGED <<write_path_vars, pipe, md, heap, rl, cq, mg, tb, ad, wd>>

\* delete_queue.cursor()
tq_cursor(i) ==
    /\ ~tq.made[i]
    /\ i = 2 => tq.made[1]
    /\ tq' = [tq EXCEPT !.c[i] = cursor(tq.q), !.made[i] = TRUE, !.at[i] = tq.n,
                        !.start[i] = position(tq.q, cursor(tq.q)),
                        !.twin = IF i = 2 /\ tq.at[1] = tq.n THEN "cursor" ELSE @,
                        !.last = CursorCall("cursor", i, FALSE, 0, 0, FALSE)]
    /\ UNCHANGED <<write_path_vars, pipe, md, heap, rl, cq, mg, tb, ad, wd>>

\* cursor.clone()
tq_clone ==
    /\ tq.made[1]
    /\ ~tq.made[2]
    /\ tq' = [tq EXCEPT !.c[2] = tq.c[1], !.made[2] = TRUE, !.at[2] = tq.n,
                        !.start[2] = position(tq.q, tq.c[1]),
                        !.stalled[2] = tq.stalled[1],
                        !.twin = "clone", !.from = Len(tq.seen[1]),
                        !.last = CursorCall("clone", 2, FALSE, 0, 0, FALSE)]
    /\ UNCHANGED <<write_path_vars, pipe, md, heap, rl, cq, mg, tb, ad, wd>>

\* cursor.get() with the result dropped
tq_get(i) ==
    /\ tq.made[i]
    /\ LET at(g) == tq' = [tq EXCEPT !.q = g.q, !.c[i] = g.c,
                                     !.stalled[i] = IF g.op = NoOp /\ @ = 0 THEN 1 ELSE @,
                                     !.last = CursorCall("get", i, g.op # NoOp,
                                                         position(tq.q, tq.c[i]), 0,
                                                         g.op = NoOp)]
       IN at(get(tq.q, tq.c[i]))
    /\ UNCHANGED <<write_path_vars, pipe, md, heap, rl, cq, mg, tb, ad, wd>>

\* the operations between two positions of the queue
passed(q, from, to) == [k \in 1..(to - from) |-> operations(q)[from + k].opstamp]

\* cursor.advance()
tq_advance(i) ==
    /\ tq.made[i]
    /\ LET from == position(tq.q, tq.c[i])
           at(a, none) ==
               tq' = [tq EXCEPT !.q = a.q, !.c[i] = a.c,
                                !.seen[i] = @ \o passed(a.q, from, position(a.q, a.c)),
                                !.stalled[i] = IF a.ret THEN 0 ELSE 2,
                                !.last = CursorCall("advance", i, a.ret, from, 0, none)]
       IN at(advance(tq.q, tq.c[i]), get(tq.q, tq.c[i]).op = NoOp)
    /\ UNCHANGED <<write_path_vars, pipe, md, heap, rl, cq, mg, tb, ad, wd>>

\* one round of a consumer: cursor.get(), and cursor.advance() when it
\* yielded an operation
tq_read(i) ==
    /\ tq.made[i]
    /\ LET from == position(tq.q, tq.c[i])
           moved(g, a) ==
               tq' = [tq EXCEPT !.q = a.q, !.c[i] = a.c,
                                !.seen[i] = Append(@, g.op.opstamp),
                                !.stalled[i] = 0,
                                !.last = CursorCall("advance", i, a.ret, from, 0, FALSE)]
           at(g) == IF g.op = NoOp
                    THEN tq' = [tq EXCEPT !.q = g.q, !.c[i] = g.c,
                                          !.stalled[i] = IF @ = 0 THEN 1 ELSE @,
                                          !.last = CursorCall("get", i, FALSE, from, 0, TRUE)]
                    ELSE moved(g, advance(g.q, g.c))
       IN at(get(tq.q, tq.c[i]))
    /\ UNCHANGED <<write_path_vars, pipe, md, heap, rl, cq, mg, tb, ad, wd>>

\* cursor.skip_to(target_opstamp)
tq_skip_to(i, target_opstamp) ==
    /\ tq.made[i]
    /\ LET from == position(tq.q, tq.c[i])
           at(r, none) ==
               tq' = [tq EXCEPT !.q = r.q, !.c[i] = r.c,
                                !.seen[i] = @ \o passed(r.q, from, position(r.q, r.c)),
                                !.stalled[i] = IF position(r.q, r.c) # from THEN 0
                                               ELSE IF none /\ @ = 0 THEN 1 ELSE @,
                                !.last = CursorCall("skip_to", i, FALSE, from,
                                                    target_opstamp, none)]
       IN at(skip_to(tq.q, tq.c[i], target_opstamp), get(tq.q, tq.c[i]).op = NoOp)
    /\ UNCHANGED <<write_path_vars, pipe, md, heap, rl, cq, mg, tb, ad, wd>>

NextQueue ==
    \/ tq_push
    \/ tq_clone
    \/ \E i \in Cursors : tq_cursor(i) \/ tq_get(i) \/ tq_advance(i) \/ tq_read(i)
    \/ \E i \in Cursors : \E target_opstamp \in 1..(MaxPushes + 1) :
           tq_skip_to(i, target_opstamp)

SpecQueue == Init /\ [][NextQueue]_vars

\* C13: a cursor made by cursor() yields exactly the operations pushed after
\* it was made, in order: none that was pushed before, every one pushed after.
C13_CursorPastQueue ==
    \A i \in Cursors :
        (tq.made[i] /\ ~(i = 2 /\ tq.twin = "clone"))
            => tq.seen[i] = [k \in 1..Len(tq.seen[i]) |-> tq.at[i] + k]

IsPrefix(s, t) == Len(s) <= Len(t) /\ s = SubSeq(t, 1, Len(s))

\* C14: two cursors taken at the same point (two cursor() calls with no push
\* between them, or a cursor and its clone) yield the same sequence: what
\* one has yielded so far is a prefix of what the other has.
C14_TwinsAgree ==
    tq.twin # "none" =>
        LET s1 == SubSeq(tq.seen[1], (IF tq.twin = "clone" THEN tq.from ELSE 0) + 1,
                         Len(tq.seen[1]))
        IN IsPrefix(s1, tq.seen[2]) \/ IsPrefix(tq.seen[2], s1)

\* C25: every cursor advances over the operations in strictly increasing
\* opstamp order, which is the push order: what it has yielded is the run of
\* the pushed operations that starts at the position the cursor was made at,
\* each once, whatever blocks they were flushed into; when get() returns None
\* it has yielded every operation pushed from that position on.
C25_PushOrder ==
    /\ operations(tq.q) = [k \in 1..tq.n |-> DeleteOperation(k, "a")]
    /\ \A i \in Cursors : tq.made[i] =>
          /\ tq.seen[i] = [k \in 1..Len(tq.seen[i]) |->
                               operations(tq.q)[tq.start[i] + k].opstamp]
          /\ \A k \in 1..(Len(tq.seen[i]) - 1) : tq.seen[i][k] < tq.seen[i][k + 1]
          /\ tq.start[i] + Len(tq.seen[i]) = position(tq.q, tq.c[i])
          /\ get(tq.q, tq.c[i]).op = NoOp
                => tq.start[i] + Len(tq.seen[i]) = Len(operations(tq.q))

\* cursor 1 has yielded three operations out of three blocks while cursor 2
\* was reading too
C25_Witness ==
    /\ tq.seen[1] = <<1, 2, 3>>
    /\ Len(tq.q.blocks) = 4
    /\ tq.seen[2] = <<2, 3>>

\* C27: after skip_to(t), get() returns the first operation at or after the
\* position the cursor had whose opstamp is >= t, or None when the queue
\* holds no such operation, and then the cursor is at the end of the queue;
\* the cursor has not moved backward.
C27_SkipTo ==
    tq.last.op = "skip_to" =>
        LET i == tq.last.i
            ops == operations(tq.q)
            g == get(tq.q, tq.c[i])
            hits == {k \in (tq.last.from + 1)..Len(ops) : ops[k].opstamp >= tq.last.t}
        IN /\ position(tq.q, tq.c[i]) >= tq.last.from
           /\ IF hits = {}
              THEN g.op = NoOp /\ position(tq.q, tq.c[i]) = Len(ops)
              ELSE g.op = ops[CHOOSE k \in hits : \A j \in hits : k <= j]

\* skip_to(3) from the start of a queue of three operations stopped on the
\* third
C27_Witness ==
    /\ tq.last.op = "skip_to" /\ tq.last.t = 3 /\ tq.last.from = 0
    /\ tq.seen[tq.last.i] = <<1, 2>>
    /\ get(tq.q, tq.c[tq.last.i]).op = DeleteOperation(3, "a")

\* C28: advance() returns true if and only if the cursor is on an operation
\* after the call: a get() issued right after it returns an operation.
C28_AdvanceTrueIffOnOperation ==
    tq.last.op = "advance"
        => (tq.last.ret <=> get(tq.q, tq.c[tq.last.i]).op # NoOp)

\* C29: advance() on a cursor whose get() returns None returns false and
\* leaves the position where it was, get() never moves the position, and a
\* cursor that is not past every operation of the queue gets the operation
\* at its position: one pushed while the cursor was at the end is not skipped.
C29_EndOfQueueKeepsPosition ==
    /\ (tq.last.op = "advance" /\ tq.last.none)
          => ~tq.last.ret /\ position(tq.q, tq.c[tq.last.i]) = tq.last.from
    /\ tq.last.op = "get" => position(tq.q, tq.c[tq.last.i]) = tq.last.from
    /\ \A i \in Cursors :
          (tq.made[i] /\ position(tq.q, tq.c[i]) < Len(operations(tq.q)))
              => get(tq.q, tq.c[i]).op = operations(tq.q)[position(tq.q, tq.c[i]) + 1]

\* a cursor that advance() had told it is at the end of the queue got, by its
\* next get(), the operation pushed after that
C29_Witness ==
    /\ tq.last.op = "get" /\ tq.last.ret
    /\ tq.stalled[tq.last.i] = 2
    /\ tq.seen[tq.last.i] = <<1>>
    /\ get(tq.q, tq.c[tq.last.i]).op = DeleteOperation(2, "a")

\* --------------------------------------------- MmapDirectory and MmapCache
\* md.files[p] is "none" (no file), "empty" (a file of length 0) or "data";
\* md.bytes[p] is the content of the file (<<>> while there is none);
\* md.cache[p]: the HashMap of MmapCache has the key p; md.held[p]: the read
\* sources held that share the Arc the Weak of p points to (the Weak upgrades
\* iff md.held[p] > 0; an Arc only exists for a path that was inserted, and
\* an entry is only removed once its Weak is dead, so one count per path is
\* enough); md.counters: CacheCounters; md.last: the last call and its result.
MdCall(op, p, res, data) ==
    [op |-> op, path |-> p, res |-> res, data |-> data, tick |-> 1 - md.last.tick]

\* MmapCache::get_info
get_info(m) == [counters |-> m.counters, mmapped |-> {p \in Paths : m.cache[p]}]

\* a faulty variant: an entry of the cache is a hit whether or not its Weak
\* upgrades
get_mmap_any_entry(m, p) ==
    IF m.cache[p]
    THEN [m |-> [m EXCEPT !.counters.hit = @ + 1, !.held[p] = @ + 1], res |-> "ok"]
    ELSE LET missed == [m EXCEPT !.counters.miss = @ + 1]
         IN CASE m.files[p] = "none" -> [m |-> missed, res |-> "FileDoesNotExist"]
              [] m.files[p] = "empty" -> [m |-> missed, res |-> "ok"]
              [] OTHER -> [m |-> [missed EXCEPT !.cache[p] = TRUE, !.held[p] = 1],
                           res |-> "ok"]

\* MmapCache::get_mmap with open_mmap: [m, res]; the Arc it returns is held
\* by the caller
get_mmap(m, p) ==
    IF m.cache[p] /\ m.held[p] > 0
    THEN [m |-> [m EXCEPT !.counters.hit = @ + 1, !.held[p] = @ + 1], res |-> "ok"]
    ELSE LET missed == [m EXCEPT !.cache[p] = FALSE, !.counters.miss = @ + 1]
         IN CASE m.files[p] = "none" -> [m |-> missed, res |-> "FileDoesNotExist"]
              [] m.files[p] = "empty" -> [m |-> missed, res |-> "ok"]
              [] OTHER -> [m |-> [missed EXCEPT !.cache[p] = TRUE, !.held[p] = 1],
                           res |-> "ok"]

md_open_read(p) ==
    /\ md.counters.hit + md.counters.miss < MaxOpens
    /\ md.held[p] < MaxHeld
    /\ LET at(r) == md' = [r.m EXCEPT !.last = MdCall("open_read", p, r.res, <<>>)]
       IN at(get_mmap(md, p))
    /\ UNCHANGED <<write_path_vars, pipe, tq, heap, rl, cq, mg, tb, ad, wd>>

\* a ReadOnlySource obtained from open_read is dropped
md_drop_source(p) ==
    /\ md.held[p] > 0
    /\ md' = [md EXCEPT !.held[p] = @ - 1]
    /\ UNCHANGED <<write_path_vars, pipe, tq, heap, rl, cq, mg, tb, ad, wd>>

md_delete(p) ==
    /\ md' = IF md.files[p] = "none"
             THEN [md EXCEPT !.last = MdCall("delete", p, "FileDoesNotExist", <<>>)]
             ELSE [md EXCEPT !.files[p] = "none", !.bytes[p] = <<>>,
                             !.last = MdCall("delete", p, "ok", <<>>)]
    /\ UNCHANGED <<write_path_vars, pipe, tq, heap, rl, cq, mg, tb, ad, wd>>

\* open_write creates the file, empty
md_open_write(p) ==
    /\ md' = IF md.files[p] # "none"
             THEN [md EXCEPT !.last = MdCall("open_write", p, "FileAlreadyExists", <<>>)]
             ELSE [md EXCEPT !.files[p] = "empty", !.last = MdCall("open_write", p, "ok", <<>>)]
    /\ UNCHANGED <<write_path_vars, pipe, tq, heap, rl, cq, mg, tb, ad, wd>>

\* bytes written through the WritePtr reach the file
md_write(p) ==
    /\ md.files[p] = "empty"
    /\ \E data \in Contents \ {<<>>} :
          md' = [md EXCEPT !.files[p] = "data", !.bytes[p] = data,
                           !.last = MdCall("write", p, "ok", data)]
    /\ UNCHANGED <<write_path_vars, pipe, tq, heap, rl, cq, mg, tb, ad, wd>>

md_atomic_read(p) ==
    /\ md' = [md EXCEPT !.last =
                 IF md.files[p] = "none"
                 THEN MdCall("atomic_read", p, "FileDoesNotExist", <<>>)
                 ELSE MdCall("atomic_read", p, "ok", md.bytes[p])]
    /\ UNCHANGED <<write_path_vars, pipe, tq, heap, rl, cq, mg, tb, ad, wd>>

\* a faulty variant: the bytes are written to the path itself
AtomicFile_write_in_place(m, p, data, written, renamed) ==
    LET got == IF written = Len(data) /\ renamed THEN data ELSE SubSeq(data, 1, written)
    IN [m |-> [m EXCEPT !.files[p] = IF got = <<>> THEN "empty" ELSE "data",
                        !.bytes[p] = got],
        res |-> IF written = Len(data) /\ renamed THEN "ok" ELSE "IOError"]

\* atomicwrites::AtomicFile::write with AllowOverwrite: `written` bytes of
\* data reach a temporary file; when all of them did and the rename over the
\* path succeeds the path holds data, otherwise the path is as it was
AtomicFile_write(m, p, data, written, renamed) ==
    IF written = Len(data) /\ renamed
    THEN [m |-> [m EXCEPT !.files[p] = IF data = <<>> THEN "empty" ELSE "data",
                          !.bytes[p] = data],
          res |-> "ok"]
    ELSE [m |-> m, res |-> "IOError"]

md_atomic_write(p) ==
    /\ \E data \in Contents : \E written \in 0..Len(data) : \E renamed \in BOOLEAN :
          LET at(r) == md' = [r.m EXCEPT !.last = MdCall("atomic_write", p, r.res, data)]
          IN at(AtomicFile_write(md, p, data, written, renamed))
    /\ UNCHANGED <<write_path_vars, pipe, tq, heap, rl, cq, mg, tb, ad, wd>>

NextCache ==
    \E p \in Paths :
        \/ md_open_read(p)
        \/ md_drop_source(p)
        \/ md_delete(p)
        \/ md_open_write(p)
        \/ md_write(p)
        \/ md_atomic_read(p)
        \/ md_atomic_write(p)

SpecCache == Init /\ [][NextCache]_vars

\* the step is a call of op
MdCalled(op) == md'.last.tick # md.last.tick /\ md'.last.op = op

\* C15: an open_read of an existing non-empty file increments exactly one
\* counter by one: hit when a read source returned earlier for the path is
\* still held, miss otherwise.
C15_OpenReadCountsOnce ==
    [][\A p \in Paths :
          (MdCalled("open_read") /\ md'.last.path = p /\ md.files[p] = "data")
              => md'.counters =
                    IF md.held[p] > 0
                    THEN [md.counters EXCEPT !.hit = @ + 1]
                    ELSE [md.counters EXCEPT !.miss = @ + 1]]_vars

\* every file was opened and held (one miss each), opened again (one hit
\* each), every read source was dropped, and every file was opened again
C15_Witness ==
    /\ md.counters = [hit |-> Cardinality(Paths), miss |-> 2 * Cardinality(Paths)]
    /\ \A p \in Paths : md.files[p] = "data" /\ md.held[p] = 1
    /\ md.last.op = "open_read"

\* C16: the paths get_cache_info() lists are those whose weak reference
\* still upgrades.
C16_CacheInfoOnlyLive ==
    \A p \in get_info(md).mmapped : md.held[p] > 0

\* C17: after a successful delete(path) the cache holds no entry for path.
C17_DeleteEvicts ==
    (md.last.op = "delete" /\ md.last.res = "ok") => md.last.path \notin get_info(md).mmapped

\* C18: open_read, atomic_read and delete of a path with no file return
\* FileDoesNotExist and change no file, whatever the cache holds.
C18_MissingFileErrors ==
    [][\A op \in {"open_read", "atomic_read", "delete"} :
          (MdCalled(op) /\ md.files[md'.last.path] = "none")
              => (md'.last.res = "FileDoesNotExist" /\ md'.files = md.files)]_vars

\* --------------------------------- open_index_writer: the heap size checks
\* the heap sizes tried: around 0, HEAP_SIZE_MIN, HEAP_SIZE_MAX,
\* u32::max_value() and beyond
HeapInputs ==
    {[hi |-> hi, lo |-> lo] :
        hi \in {0, 2, 3, 4293, 4294, 5000},
        lo \in (0..HeapNear) \cup ((967295 - HeapNear)..(967295 + HeapNear))
                  \cup ((Limb - 1 - HeapNear)..(Limb - 1))}

\* the two checks open_index_writer starts with
heap_size_check(heap_size_in_bytes_per_thread) ==
    IF Lt(heap_size_in_bytes_per_thread, HEAP_SIZE_MIN)
    THEN "InvalidArgument"
    ELSE IF ~Lt(heap_size_in_bytes_per_thread, HEAP_SIZE_MAX)
         THEN "InvalidArgument"
         ELSE "ok"

open_index_writer_heap(h) ==
    /\ heap' = [arg |-> h, res |-> heap_size_check(h)]
    /\ UNCHANGED <<write_path_vars, pipe, tq, md, rl, cq, mg, tb, ad, wd>>

NextHeap == \E h \in HeapInputs : open_index_writer_heap(h)

SpecHeap == Init /\ [][NextHeap]_vars

\* C19: open_index_writer returns InvalidArgument iff the heap size per
\* thread is outside the closed interval [3,000,000, 2^32 - 1 - 1,000,000]
\* = [3,000,000, 4,293,967,295]; both bounds are accepted.
C19_HeapBoundsClosed ==
    (heap.res = "InvalidArgument")
        <=> (Lt(heap.arg, [hi |-> 3, lo |-> 0]) \/ Lt([hi |-> 4293, lo |-> 967295], heap.arg))

\* C21: atomic_write(path, bytes) followed by atomic_read(path) returns
\* exactly bytes whatever the path held before, and an atomic_write that
\* fails leaves the path with the content it had.
C21_AtomicRoundTrip ==
    /\ [][(md.last.op = "atomic_write" /\ md.last.res = "ok"
              /\ MdCalled("atomic_read") /\ md'.last.path = md.last.path)
            => (md'.last.res = "ok" /\ md'.last.data = md.last.data)]_vars
    /\ [][(MdCalled("atomic_write") /\ md'.last.res # "ok")
            => (md'.files = md.files /\ md'.bytes = md.bytes)]_vars

\* bytes written atomically to f were read back while g holds other bytes
C21_Witness ==
    /\ md.last = [op |-> "atomic_read", path |-> "f", res |-> "ok", data |-> <<1>>,
                  tick |-> md.last.tick]
    /\ md.bytes["g"] = <<2, 3>>
    /\ md.bytes["f"] = <<1>>

\* ------------------------------------ initial_table_size: the hash table
\* a / 3 on two limbs
Div3(a) == [hi |-> a.hi \div 3, lo |-> ((a.hi % 3) * Limb + a.lo) \div 3]

\* postings::compute_table_size: (1 << num_bits) * size_of::<KeyValue>(),
\* a KeyValue being two u32; on two limbs
compute_table_size(num_bits) ==
    LET n == 2 ^ num_bits
    IN [hi |-> (n \div Limb) * 8 + ((n % Limb) * 8) \div Limb,
        lo |-> ((n % Limb) * 8) % Limb]

\* (num_bits..).take_while(|num_bits| compute_table_size(num_bits) < limit).last(),
\* num_bits - 1 = 0 standing for None
RECURSIVE take_while_last(_, _)
take_while_last(num_bits, table_size_limit) ==
    IF Lt(compute_table_size(num_bits), table_size_limit)
    THEN take_while_last(num_bits + 1, table_size_limit)
    ELSE num_bits - 1

initial_table_size(per_thread_memory_budget) ==
    IF ~Lt([hi |-> 0, lo |-> 1000], per_thread_memory_budget)
    THEN "panic"
    ELSE LET table_size_limit == Div3(per_thread_memory_budget)
             limit == take_while_last(1, table_size_limit)
         IN IF limit >= 1
            THEN IF limit < 19 THEN limit ELSE 19
            ELSE "unreachable"

\* the budgets tried: within [HEAP_SIZE_MIN, HEAP_SIZE_MAX], around three
\* times the table sizes of 17, 18 and 19 bits, and around the bounds
TableInputs ==
    {b \in {[hi |-> hi, lo |-> lo] :
                hi \in {3, 6, 12, 1000, 4293},
                lo \in (0..TableNear)
                          \cup ((145728 - TableNear)..(145728 + TableNear))
                          \cup ((291456 - TableNear)..(291456 + TableNear))
                          \cup ((582912 - TableNear)..(582912 + TableNear))
                          \cup ((967295 - TableNear)..967295)} :
        ~Lt(b, HEAP_SIZE_MIN) /\ ~Lt(HEAP_SIZE_MAX, b)}

\* index_documents: let table_size = initial_table_size(memory_budget);
index_documents_table(b) ==
    /\ tb' = [arg |-> b, res |-> initial_table_size(b)]
    /\ UNCHANGED <<write_path_vars, pipe, tq, md, heap, rl, cq, mg, ad, wd>>

NextTable == \E b \in TableInputs : index_documents_table(b)

SpecTable == Init /\ [][NextTable]_vars

\* C35: initial_table_size(heap) is the largest k <= 19 with
\* compute_table_size(k) <= heap / 3, for every heap in
\* [HEAP_SIZE_MIN, HEAP_SIZE_MAX].
C35_InitialTableSize ==
    tb.res # 0 =>
        LET fits == {k \in 1..19 : ~Lt(Div3(tb.arg), compute_table_size(k))}
        IN /\ tb.res \in fits
           /\ \A k \in fits : k <= tb.res


\* ------------------------------------ advance_deletes on one segment entry
\* A worker receives documents and deletes are pushed; the worker finalizes
\* its segment; then deletes go on and the commit task calls advance_deletes
\* with the commit opstamp, which is a fresh stamp or, after a rollback to
\* that commit, the opstamp of the last commit again.
ad_add(t) ==
    /\ ad.phase = "feed"
    /\ Len(ad.docs) < MaxAdDocs
    /\ LET sk == IF ad.docs = <<>>
                 THEN skip_to(ad.q, ad.c, ad.stamp)
                 ELSE [q |-> ad.q, c |-> ad.c]
       IN ad' = [ad EXCEPT !.docs = Append(@, AddOperation(0, ad.stamp, t)),
                           !.q = sk.q, !.c = sk.c,
                           !.stamp = @ + 1, !.called = FALSE]
    /\ UNCHANGED <<write_path_vars, pipe, tq, md, heap, rl, cq, mg, tb, wd>>

ad_delete(t) ==
    /\ ad.ndel < MaxAdDeletes
    /\ ad' = [ad EXCEPT !.q = push(@, DeleteOperation(ad.stamp, t)),
                        !.stamp = @ + 1, !.ndel = @ + 1, !.called = FALSE]
    /\ UNCHANGED <<write_path_vars, pipe, tq, md, heap, rl, cq, mg, tb, wd>>

ad_finalize ==
    /\ ad.phase = "feed"
    /\ ad.docs # <<>>
    /\ LET f == index_documents_finalize(ad.docs, ad.q, ad.c)
       IN ad' = [ad EXCEPT !.phase = "built", !.entry = f.entry, !.q = f.q,
                           !.called = FALSE]
    /\ UNCHANGED <<write_path_vars, pipe, tq, md, heap, rl, cq, mg, tb, wd>>

ad_advance(fresh) ==
    /\ ad.phase = "built"
    /\ ad.n < MaxAdCalls
    /\ fresh \/ ad.target # NoStamp
    /\ LET target_opstamp == IF fresh THEN ad.stamp ELSE ad.target
           r == advance_deletes(ad.entry, ad.q, target_opstamp)
       IN ad' = [ad EXCEPT !.prev = ad.entry, !.entry = r.entry, !.q = r.q,
                           !.target = target_opstamp,
                           !.stamp = IF fresh THEN @ + 1 ELSE @,
                           !.n = @ + 1, !.called = TRUE]
    /\ UNCHANGED <<write_path_vars, pipe, tq, md, heap, rl, cq, mg, tb, wd>>

NextAdvance ==
    \/ \E t \in Terms : ad_add(t)
    \/ \E t \in Terms : ad_delete(t)
    \/ ad_finalize
    \/ \E fresh \in BOOLEAN : ad_advance(fresh)

SpecAdvance == Init /\ [][NextAdvance]_vars

\* C37: advance_deletes keeps every bit of the entry's bitset and every
\* deletion recorded in the segment, marks documents of the segment only,
\* sets the meta's delete opstamp to the target exactly when at least one
\* document is deleted, and changes nothing when the entry's delete opstamp
\* already equals the target.
C37_AdvanceDeletesMonotone ==
    ad.called =>
        IF ad.prev.meta.delete_opstamp = ad.target
        THEN ad.entry = ad.prev
        ELSE /\ ad.prev.delete_bitset \cup ad.prev.meta.deleted \subseteq ad.entry.meta.deleted
             /\ ad.entry.meta.deleted \subseteq 0..(Len(ad.entry.meta.docs) - 1)
             /\ Cardinality(ad.entry.meta.deleted) <= Len(ad.entry.meta.docs)
             /\ ad.entry.meta.docs = ad.prev.meta.docs
             /\ (ad.entry.meta.deleted # {}) <=> (ad.entry.meta.delete_opstamp = ad.target)
             /\ (ad.entry.meta.deleted = {}) => ad.entry.meta = ad.prev.meta

\* advance_deletes was called on an entry whose bitset held a document the
\* segment had not recorded as deleted, and it found one more to delete
C37_Witness ==
    /\ ad.called
    /\ ad.prev.delete_bitset # {}
    /\ ad.prev.meta.deleted = {}
    /\ ad.prev.delete_bitset \subseteq ad.entry.meta.deleted
    /\ ad.entry.meta.deleted # ad.prev.delete_bitset


\* ------------------------------ MmapDirectory: watcher and dispatcher thread
\* wd.handles counts the MmapDirectory values (the directory and its
\* clones), wd.strong the Arc<MmapDirectoryInner> references: one per handle
\* and the clone moved into the dispatcher thread for as long as the thread
\* lives.  wd.tx: the sender given to the notify watcher, which the
\* WatcherWrapper inside MmapDirectoryInner owns, still exists.  wd.events is
\* the channel from the watcher to the thread.
DebouncedEvents ==
    {[kind |-> k, path |-> p] : k \in {"NoticeWrite", "Rename"}, p \in Paths}
        \cup {[kind |-> "Other", path |-> "none"]}

\* Option<PathBuf>: the path, or "none"
extract_path_from_event(evt) ==
    IF evt.kind \in {"NoticeWrite", "Rename"} THEN evt.path ELSE "none"

\* dropping one Arc reference: with the last one MmapDirectoryInner is
\* dropped, and with it the watcher and its sender
Arc_drop(w) ==
    [w EXCEPT !.strong = @ - 1,
              !.tx = IF w.strong = 1 THEN FALSE ELSE @,
              !.subs = IF w.strong = 1 THEN {} ELSE @]

\* MmapDirectory::clone
wd_clone ==
    /\ wd.handles >= 1
    /\ wd.handles < MaxHandles
    /\ wd' = [wd EXCEPT !.handles = @ + 1, !.strong = @ + 1]
    /\ UNCHANGED <<write_path_vars, pipe, tq, md, heap, rl, cq, mg, tb, ad>>

\* a handle is dropped
wd_drop ==
    /\ wd.handles >= 1
    /\ wd' = [Arc_drop(wd) EXCEPT !.handles = @ - 1]
    /\ UNCHANGED <<write_path_vars, pipe, tq, md, heap, rl, cq, mg, tb, ad>>

\* MmapDirectory::watch through a handle
wd_watch(path) ==
    /\ wd.handles >= 1
    /\ path \notin wd.subs
    /\ wd' = [wd EXCEPT !.subs = @ \cup {path}]
    /\ UNCHANGED <<write_path_vars, pipe, tq, md, heap, rl, cq, mg, tb, ad>>

\* the notify watcher sends an event
wd_event(evt) ==
    /\ wd.tx
    /\ wd.sent < MaxEvents
    /\ wd' = [wd EXCEPT !.events = Append(@, evt), !.sent = @ + 1]
    /\ UNCHANGED <<write_path_vars, pipe, tq, md, heap, rl, cq, mg, tb, ad>>

\* one round of the dispatcher loop: an event is received and dispatched, or
\* recv() fails because the sender is gone and the thread ends, dropping its
\* Arc clone; with no event and a sender recv() blocks
wd_recv ==
    /\ wd.thread = "recv"
    /\ IF wd.events # <<>>
       THEN LET path == extract_path_from_event(Head(wd.events))
            IN wd' = [wd EXCEPT !.events = Tail(@),
                                !.fired = IF path # "none" /\ path \in wd.subs
                                          THEN @ \cup {path} ELSE @]
       ELSE /\ ~wd.tx
            /\ wd' = [Arc_drop(wd) EXCEPT !.thread = "ended"]
    /\ UNCHANGED <<write_path_vars, pipe, tq, md, heap, rl, cq, mg, tb, ad>>

NextWatch ==
    \/ wd_clone
    \/ wd_drop
    \/ \E path \in Paths : wd_watch(path)
    \/ \E evt \in DebouncedEvents : wd_event(evt)
    \/ wd_recv

SpecWatch == Init /\ [][NextWatch]_vars

\* the dispatcher thread is scheduled whenever it can run
SpecWatchFair == SpecWatch /\ WF_vars(wd_recv)

\* C40: once every MmapDirectory handle has been dropped the watcher's
\* sender is dropped and the dispatcher thread eventually ends.
C40_DispatcherEnds ==
    /\ [](wd.handles = 0 => <>(~wd.tx))
    /\ (wd.handles = 0) ~> (wd.thread = "ended")


\* ----------------------------------------------------- RemoveLongFilter
\* token.text.len() is the length of the text in bytes
predicate(s, token) == Len(token) < s.token_length_limit

\* RemoveLongFilterStream::advance
RECURSIVE RemoveLongFilterStream_advance(_)
RemoveLongFilterStream_advance(s) ==
    IF s.tail = <<>>
    THEN [s EXCEPT !.ret = "false"]
    ELSE IF predicate(s, Head(s.tail))
         THEN [s EXCEPT !.tail = Tail(@), !.token = Head(s.tail), !.ret = "true",
                        !.out = Append(@, Head(s.tail))]
         ELSE RemoveLongFilterStream_advance([s EXCEPT !.tail = Tail(@),
                                                       !.token = Head(s.tail)])

\* RemoveLongFilter::limit(length_limit).transform(token_stream)
rl_transform ==
    /\ rl = wrap(0, <<>>)
    /\ \E length_limit \in 0..MaxLimit : \E n \in 0..MaxTokens :
         \E token_stream \in [1..n -> TokenTexts] :
            rl' = wrap(length_limit, token_stream)
    /\ UNCHANGED <<write_path_vars, pipe, tq, md, heap, cq, mg, tb, ad, wd>>

rl_advance ==
    /\ rl.ret # "false"
    /\ rl' = RemoveLongFilterStream_advance(rl)
    /\ UNCHANGED <<write_path_vars, pipe, tq, md, heap, cq, mg, tb, ad, wd>>

NextFilter == rl_transform \/ rl_advance

SpecFilter == Init /\ [][NextFilter]_vars

\* C24: RemoveLongFilter::limit(n) yields exactly the tokens of at most n
\* bytes, in their order: once the stream has ended, the tokens it stopped
\* on are the tokens of its input that are not longer than n.
C24_RemovesLongerOnly ==
    rl.ret = "false" =>
        LET Short(token) == Len(token) <= rl.token_length_limit
        IN rl.out = SelectSeq(rl.input, Short)
\* -------------------------------- the DeleteQueue under concurrent threads
\* The queue cq.q is shared by the threads CellThreads; each owns the cursor
\* cq.c[t] and calls push, cursor(), get() and advance() (skip_to is a loop
\* of get and advance).  cq.inner is the RwLock of DeleteQueue::inner and
\* cq.cell[b] the RwLock of the NextBlock of block b; a step of a thread
\* runs from one lock operation to the next.  cq.pc[t] is where thread t is
\* in its call, cq.next_block[t] the local of NextBlock::next_block.
\* History: cq.order holds <<held, requested>> for every lock acquired while
\* another was held, cq.steps the pairs <<block, successor>> cursors have
\* stepped over, cq.flushed[b] the blocks flush() made on behalf of cell b.
read_ok(lock) == lock.writer = 0
write_ok(lock) == lock.writer = 0 /\ lock.readers = {}

\* the locks thread t holds
held(r, t) ==
    (IF r.inner.writer = t \/ t \in r.inner.readers THEN {"queue"} ELSE {})
    \cup (IF \E b \in CellBlocks : r.cell[b].writer = t \/ t \in r.cell[b].readers
          THEN {"cell"} ELSE {})

\* a read guard that is dropped only when next_block returns
end_read_scope_late(lock, t) == lock

\* the end of the block that holds a read guard
end_read_scope(lock, t) == [lock EXCEPT !.readers = @ \ {t}]

\* a second look at the cell that never finds it closed
recheck_skipped(q, b) == FALSE

\* the match under the write lock: InnerNextBlock::Closed
recheck(q, b) == q.blocks[b].next # 0

\* load_block_if_required got blk from next_block (0: None) and the call
\* (get or advance) returns
cq_return(r, t, blk) ==
    IF blk = 0
    THEN [r EXCEPT !.pc[t] = "idle", !.call[t] = "none"]
    ELSE [r EXCEPT !.pc[t] = "idle", !.call[t] = "none",
                   !.c[t] = [block |-> blk,
                             pos |-> IF r.call[t] = "advance" THEN 1 ELSE 0],
                   !.steps = @ \cup {<<r.c[t].block, blk>>}]

\* thread t starts a call; get and advance return at once when the block of
\* the cursor is not consumed
cq_call(t, kind) ==
    /\ cq.pc[t] = "idle"
    /\ kind = "push" =>
          cq.n + Cardinality({u \in CellThreads : cq.call[u] = "push" /\ cq.pc[u] # "idle"})
              < MaxCellPushes
    /\ cq' = IF kind = "push" THEN [cq EXCEPT !.pc[t] = "push_lock", !.call[t] = kind]
             ELSE IF kind = "cursor"
             THEN [cq EXCEPT !.pc[t] = "cursor_lock", !.call[t] = kind]
             ELSE IF cq.c[t].pos >= Len(cq.q.blocks[cq.c[t].block].operations)
             THEN [cq EXCEPT !.pc[t] = "read_lock", !.call[t] = kind]
             ELSE [cq EXCEPT !.c[t].pos = IF kind = "advance" THEN @ + 1 ELSE @]
    /\ UNCHANGED <<write_path_vars, pipe, tq, md, heap, rl, mg, tb, ad, wd>>

\* RwLock::read / RwLock::write returns to thread t
cq_lock(t) ==
    /\ cq.pc[t] \in {"push_lock", "cursor_lock", "read_lock", "write_lock", "flush_lock"}
    /\ LET b == cq.c[t].block
           got(kind) == [cq EXCEPT !.order = @ \cup {<<h, kind>> : h \in held(cq, t)}]
       IN CASE cq.pc[t] = "push_lock" ->
                 /\ write_ok(cq.inner)
                 /\ cq' = [got("queue") EXCEPT !.inner.writer = t, !.pc[t] = "pushing"]
            [] cq.pc[t] = "flush_lock" ->
                 /\ write_ok(cq.inner)
                 /\ cq' = [got("queue") EXCEPT !.inner.writer = t, !.pc[t] = "flushing"]
            [] cq.pc[t] = "cursor_lock" ->
                 /\ read_ok(cq.inner)
                 /\ cq' = [got("queue") EXCEPT !.inner.readers = @ \cup {t},
                                               !.pc[t] = "cursor_read"]
            [] cq.pc[t] = "read_lock" ->
                 /\ read_ok(cq.cell[b])
                 /\ cq' = [got("cell") EXCEPT !.cell[b].readers = @ \cup {t},
                                              !.pc[t] = "read_check"]
            [] cq.pc[t] = "write_lock" ->
                 /\ write_ok(cq.cell[b])
                 /\ cq' = [got("cell") EXCEPT !.cell[b].writer = t,
                                              !.pc[t] = "write_check"]
    /\ UNCHANGED <<write_path_vars, pipe, tq, md, heap, rl, mg, tb, ad, wd>>

\* push under the write lock of the queue
cq_push(t) ==
    /\ cq.pc[t] = "pushing"
    /\ cq' = [cq EXCEPT !.q = push(@, DeleteOperation(cq.n + 1, "a")), !.n = @ + 1,
                        !.inner.writer = 0, !.pc[t] = "idle", !.call[t] = "none"]
    /\ UNCHANGED <<write_path_vars, pipe, tq, md, heap, rl, mg, tb, ad, wd>>

\* cursor() under the read lock of the queue
cq_cursor(t) ==
    /\ cq.pc[t] = "cursor_read"
    /\ cq' = [cq EXCEPT !.c[t] = cursor(cq.q),
                        !.inner.readers = @ \ {t}, !.pc[t] = "idle",
                        !.call[t] = "none"]
    /\ UNCHANGED <<write_path_vars, pipe, tq, md, heap, rl, mg, tb, ad, wd>>

\* next_block under the read lock of the cell
cq_read_check(t) ==
    /\ cq.pc[t] = "read_check"
    /\ LET b == cq.c[t].block
           out(r) == IF cq.q.blocks[b].next # 0
                     THEN cq_return(r, t, cq.q.blocks[b].next)
                     ELSE [r EXCEPT !.pc[t] = "write_lock"]
       IN cq' = out([cq EXCEPT !.cell[b] = end_read_scope(@, t)])
    /\ UNCHANGED <<write_path_vars, pipe, tq, md, heap, rl, mg, tb, ad, wd>>

\* next_block under the write lock of the cell, before flush
cq_write_check(t) ==
    /\ cq.pc[t] = "write_check"
    /\ LET b == cq.c[t].block
       IN cq' = IF recheck(cq.q, b)
                THEN cq_return([cq EXCEPT !.cell[b].writer = 0], t, cq.q.blocks[b].next)
                ELSE [cq EXCEPT !.pc[t] = "flush_lock"]
    /\ UNCHANGED <<write_path_vars, pipe, tq, md, heap, rl, mg, tb, ad, wd>>

\* flush under the write lock of the queue, called under the one of the cell
cq_flush(t) ==
    /\ cq.pc[t] = "flushing"
    /\ LET b == cq.c[t].block
           at(f) == IF f.blk = 0
                    THEN cq_return([cq EXCEPT !.inner.writer = 0, !.cell[b].writer = 0],
                                   t, 0)
                    ELSE [cq EXCEPT !.q = f.q, !.inner.writer = 0,
                                    !.next_block[t] = f.blk,
                                    !.flushed[b] = @ + 1,
                                    !.pc[t] = "close"]
       IN cq' = at(flush(cq.q))
    /\ UNCHANGED <<write_path_vars, pipe, tq, md, heap, rl, mg, tb, ad, wd>>

\* the cell becomes Closed(next_block) and its write lock is dropped
cq_close(t) ==
    /\ cq.pc[t] = "close"
    /\ LET b == cq.c[t].block
       IN cq' = cq_return([cq EXCEPT !.q.blocks[b].next = cq.next_block[t],
                                     !.cell[b].writer = 0,
                                     !.next_block[t] = 0],
                          t, cq.next_block[t])
    /\ UNCHANGED <<write_path_vars, pipe, tq, md, heap, rl, mg, tb, ad, wd>>

\* a step of thread t inside a call
cq_step(t) ==
    \/ cq_lock(t)
    \/ cq_push(t)
    \/ cq_cursor(t)
    \/ cq_read_check(t)
    \/ cq_write_check(t)
    \/ cq_flush(t)
    \/ cq_close(t)

NextCells ==
    \/ \E t \in CellThreads : \E kind \in {"push", "cursor", "get", "advance"} :
           cq_call(t, kind)
    \/ \E t \in CellThreads : cq_lock(t)
    \/ \E t \in CellThreads : cq_push(t)
    \/ \E t \in CellThreads : cq_cursor(t)
    \/ \E t \in CellThreads : cq_read_check(t)
    \/ \E t \in CellThreads : cq_write_check(t)
    \/ \E t \in CellThreads : cq_flush(t)
    \/ \E t \in CellThreads : cq_close(t)

SpecCells == Init /\ [][NextCells]_vars

\* a thread inside a call that can run (it is not waiting for a lock another
\* thread holds) is scheduled
SpecCellsFair == SpecCells /\ \A t \in CellThreads : WF_vars(cq_step(t))

\* C26: a terminator cell that is Closed never changes again, at most one
\* flush makes a block on behalf of a cell, two cursors that step past the
\* same block reach the same successor, and the operations of a block never
\* change once the block exists.
C26_CellClosedOnce ==
    /\ [][\A b \in 1..Len(cq.q.blocks) :
            /\ cq.q.blocks[b].next # 0 => cq'.q.blocks[b].next = cq.q.blocks[b].next
            /\ cq'.q.blocks[b].operations = cq.q.blocks[b].operations]_vars
    /\ [](\A b \in CellBlocks : cq.flushed[b] <= 1)
    /\ [](\A x, y \in cq.steps : x[1] = y[1] => x[2] = y[2])

\* thread 2 found the cell of the second block in state Writer under the read
\* lock and holds its write lock now, after thread 1 flushed a third block
\* through that cell and closed it
C26_Witness ==
    /\ cq.steps = {<<1, 2>>, <<2, 3>>}
    /\ cq.c[1].block = 3 /\ cq.c[2].block = 2
    /\ cq.pc[2] = "write_check" /\ cq.q.blocks[2].next = 3

term_of(d) == IF d = 3 THEN "b" ELSE "a"

\* Searcher::doc_freq summed over the searchable segments, deleted documents
\* left out
doc_freq(m, term) ==
    Cardinality({x \in m.live \X MergeDocs :
                    /\ x[2] \in m.docs[x[1]] \ m.deleted
                    /\ term_of(x[2]) = term})

\* a commit publishes a new segment of documents not indexed before
mg_commit ==
    /\ ~mg.waited
    /\ mg.next <= MaxSegmentIds
    /\ \E ds \in (SUBSET (MergeDocs \ mg.indexed)) \ {{}} :
          mg' = [mg EXCEPT !.docs[mg.next] = ds, !.live = @ \cup {mg.next},
                           !.next = @ + 1, !.indexed = @ \cup ds]
    /\ UNCHANGED <<write_path_vars, pipe, tq, md, heap, rl, cq, tb, ad, wd>>

\* a committed delete of a document of a segment that is not being merged
mg_delete ==
    /\ ~mg.waited
    /\ \E id \in mg.live \ mg.merging : \E d \in mg.docs[id] \ mg.deleted :
          mg' = [mg EXCEPT !.deleted = @ \cup {d}]
    /\ UNCHANGED <<write_path_vars, pipe, tq, md, heap, rl, cq, tb, ad, wd>>

\* IndexWriter::merge(segment_ids): start_merge marks the segments as merging
\* and spawns the merge task
mg_merge ==
    /\ ~mg.waited
    /\ mg.next <= MaxSegmentIds
    /\ \E segment_ids \in (SUBSET (mg.live \ mg.merging)) \ {{}} :
          mg' = [mg EXCEPT !.merging = @ \cup segment_ids,
                           !.tasks = @ \cup {[inputs |-> segment_ids, out |-> mg.next,
                                              state |-> "running"]},
                           !.next = @ + 1]
    /\ UNCHANGED <<write_path_vars, pipe, tq, md, heap, rl, cq, tb, ad, wd>>

\* the merge task has built the combined segment, or failed on I/O: the
\* merge is aborted and its inputs are left as they were
mg_build ==
    /\ \E task \in mg.tasks : \E ok \in BOOLEAN :
          /\ task.state = "running"
          /\ mg' = IF ok
                   THEN [mg EXCEPT !.docs[task.out] =
                                       (UNION {mg.docs[id] : id \in task.inputs})
                                           \ mg.deleted,
                                   !.tasks = (@ \ {task})
                                             \cup {[task EXCEPT !.state = "built"]}]
                   ELSE [mg EXCEPT !.tasks = @ \ {task},
                                   !.merging = @ \ task.inputs]
    /\ UNCHANGED <<write_path_vars, pipe, tq, md, heap, rl, cq, tb, ad, wd>>

\* a complete_merge that adds the output and keeps the inputs
complete_merge_keeping_inputs(m, task) ==
    [m EXCEPT !.live = @ \cup {task.out},
              !.merging = @ \ task.inputs,
              !.tasks = @ \ {task}]

\* complete_merge: the inputs are replaced by the output in one step
complete_merge(m, task) ==
    [m EXCEPT !.live = (@ \ task.inputs) \cup {task.out},
              !.merging = @ \ task.inputs,
              !.tasks = @ \ {task}]

\* the complete_merge task of a merge runs
mg_complete ==
    /\ \E task \in mg.tasks :
          /\ task.state = "built"
          /\ LET done(m) ==
                     [m EXCEPT !.merges = @ \cup
                         {[inputs |-> task.inputs,
                           before |-> Cardinality(mg.live),
                           after |-> Cardinality(m.live),
                           count_before |-> [term \in {"a", "b"} |-> doc_freq(mg, term)],
                           count_after |-> [term \in {"a", "b"} |-> doc_freq(m, term)]]}]
             IN mg' = done(complete_merge(mg, task))
    /\ UNCHANGED <<write_path_vars, pipe, tq, md, heap, rl, cq, tb, ad, wd>>

\* wait_merging_threads returns Ok: every merge task has been joined
mg_wait_merging_threads ==
    /\ ~mg.waited
    /\ mg.tasks = {}
    /\ mg' = [mg EXCEPT !.waited = TRUE]
    /\ UNCHANGED <<write_path_vars, pipe, tq, md, heap, rl, cq, tb, ad, wd>>

NextMerge ==
    \/ mg_commit
    \/ mg_delete
    \/ mg_merge
    \/ mg_build
    \/ mg_complete
    \/ mg_wait_merging_threads

SpecMerge == Init /\ [][NextMerge]_vars

\* C22 as stated: after wait_merging_threads returned Ok, every merge that
\* completed left strictly fewer searchable segments than there were before
\* it and the document count of every term as it was.
C22_MergeFewerSegments ==
    mg.waited =>
        \A m \in mg.merges :
            /\ m.after < m.before
            /\ m.count_after = m.count_before

\* C22 amended: after wait_merging_threads returned Ok, every merge that
\* completed, of k segments, left k - 1 segments fewer (strictly fewer when
\* two or more segments were merged, as many when one was) and the document
\* count of every term as it was.
C22_MergeReplacesInputs ==
    mg.waited =>
        \A m \in mg.merges :
            /\ m.after = m.before - (Cardinality(m.inputs) - 1)
            /\ Cardinality(m.inputs) >= 2 => m.after < m.before
            /\ m.count_after = m.count_before

\* wait_merging_threads returned after a merge of two segments, one of which
\* held a deleted document, left one segment where there were three
C22_Witness ==
    /\ mg.waited
    /\ \E m \in mg.merges :
          /\ Cardinality(m.inputs) = 2 /\ m.before = 3 /\ m.after = 2
          /\ m.count_after = [term \in {"a", "b"} |-> 1]
    /\ mg.deleted # {}

\* ------------------------------------------------------------------------
\* Properties of the write path: kill flag, stamps, generations, workers
\* ------------------------------------------------------------------------

\* C31: once the kill flag of a writer's segment updater is set, no step
\* adds a segment entry to that updater, and a worker that has finished
\* feeding and finds the flag set drops its documents and goes back to
\* waiting for a batch without finalizing or publishing.
C31_KilledNeverInstalls ==
    [][\A e \in Epochs :
         su[e].killed =>
           /\ su'[e].entries \subseteq su[e].entries
           /\ \A i \in Threads :
                (workers[e][i].pc = "alive" /\ workers'[e][i] # workers[e][i]) =>
                    /\ workers'[e][i].pc = "peek"
                    /\ workers'[e][i].docs = <<>>]_vars

\* the kill flag is set while one worker is at the is_alive test and another
\* has passed it and holds documents to publish
C31_Witness ==
    \E e \in Epochs : \E i, j \in Threads :
        /\ su[e].killed
        /\ workers[e][i].pc = "alive"
        /\ workers[e][j].pc = "publish"
        /\ workers[e][j].docs # <<>>

\* a call that hands out a stamp
IsStampCall(c) == c.op \in {"add_document", "delete_term", "run"} /\ c.ok

\* C32: every stamp add_document, delete_term or run returns on one
\* IndexWriter is greater than every stamp these calls returned on it before,
\* with commits and rollbacks in between.
C32_StampsStrictlyIncreasing ==
    [][(alive /\ last' # last /\ IsStampCall(last')) => last'.ret > returned_max]_vars

C34_GenerationGrowsAtCommit ==
    [][/\ (alive /\ alive' /\ epoch' = epoch) => generation' >= generation
       /\ (pc = "joining" /\ join_i <= num_threads /\ join_i' = join_i + 1) =>
             workers'[epoch][join_i].generation > workers[epoch][join_i].generation]_vars

\* the opstamps of a sequence of documents go strictly up
Increasing(docs) ==
    \A a, b \in 1..Len(docs) : a < b => docs[a].opstamp < docs[b].opstamp

\* C36: the documents of every segment a worker builds or has handed to the
\* segment updater are in strictly increasing order of opstamp, so that the
\* last document carries the highest opstamp of the segment.
C36_DocOpstampsIncreasing ==
    /\ \A e \in Epochs : \A i \in Threads :
          LET docs == workers[e][i].docs
          IN /\ Increasing(docs)
             /\ \A k \in 1..Len(docs) : docs[k].opstamp <= docs[Len(docs)].opstamp
    /\ \A e \in Epochs : \A entry \in su[e].entries : Increasing(entry.meta.docs)

\* two workers share the channel: one is about to finalize a segment of
\* two batches, and the other holds a document stamped between the two
C36_Witness ==
    \E e \in Epochs : \E i, j \in Threads :
        /\ workers[e][i].pc = "publish"
        /\ Len(workers[e][i].docs) >= 2
        /\ \E k \in 1..Len(workers[e][j].docs) :
              /\ workers[e][i].docs[1].opstamp < workers[e][j].docs[k].opstamp
              /\ workers[e][j].docs[k].opstamp < workers[e][i].docs[2].opstamp

\* C38: a worker that is past the head of its loop holds at least one
\* document, so num_docs > 0 holds wherever index_documents asserts it,
\* with empty batches in the channel and with the channel closed or the
\* kill flag set at any point.
C38_SegmentNeverEmpty ==
    \A e \in Epochs : \A i \in Threads :
        workers[e][i].pc \in {"feed", "alive", "publish"} => Len(workers[e][i].docs) > 0

\* the only worker has taken the empty batch of a run of deletes in its
\* feeding loop and stands at the assertion
C38_Witness ==
    /\ num_threads = 1
    /\ last.op = "run"
    /\ last.arg # <<>>
    /\ last.batch = <<>>
    /\ chan[epoch][slot].q = <<>>
    /\ workers[epoch][1].pc = "publish"

\* a call that waits for the workers, or for the channel to be drained, is
\* under way
Waiting == alive /\ pc \in {"joining", "rollback", "drain", "waiting"}

\* C39: under fair scheduling prepare_commit, rollback and
\* wait_merging_threads always return: a call that is waiting for the
\* workers or draining the channel eventually is no longer under way.
C39_JoinsTerminate == Waiting ~> ~Waiting

\* prepare_commit waits for two workers while an empty batch and a document
\* are still in the channel it has closed
C39_Witness ==
    /\ pc = "joining"
    /\ num_threads = 2
    /\ join_i = 1
    /\ ~chan[epoch][1 - slot].open
    /\ Len(chan[epoch][1 - slot].q) = 2
    /\ <<>> \in Range(chan[epoch][1 - slot].q)

====
